---- MODULE Spec2Model ----
(***************************************************************************)
(* Perishable-inventory simulation engine (simulate.ts, rng.ts, eval.ts).  *)
(*                                                                         *)
(* Number representation.  Batch quantities, days and counts are integers. *)
(* Every other JavaScript number (prices, rates, multipliers, fractions,   *)
(* noise) is a fixed-point integer counting units of 1/Scale, so 0.5 is    *)
(* Scale \div 2.  A product of two such numbers counts units of 1/Scale^2. *)
(* Math.floor and Math.round are computed on these rationals exactly.      *)
(* The 32-bit words of the generator are pairs <<hi, lo>> of 16-bit halves *)
(* so that no intermediate value leaves the range of the checker's         *)
(* integers.                                                               *)
(***************************************************************************)
EXTENDS Integers, Sequences, FiniteSets, TLC

\* Denominator of the fixed-point numbers (1/20 represents the 0.05 floor of
\* the price effect exactly).
Scale == 4 * 5
Scale2 == Scale * Scale

Max(a, b) == IF a >= b THEN a ELSE b
Min(a, b) == IF a <= b THEN a ELSE b

\* Math.floor / Math.round of the rational n/d (d > 0); \div rounds down.
Floor(n, d) == n \div d
Round(n, d) == (2 * n + d) \div (2 * d)

RECURSIVE SumSeq(_)
SumSeq(s) == IF s = <<>> THEN 0 ELSE Head(s) + SumSeq(Tail(s))

----------------------------------------------------------------------------
(* rng.ts: Mulberry32 on 32-bit words *)

Half == 256 * 256
\* 0x6d2b79f5 split into its 16-bit halves
IncHi == 27947
IncLo == 31221

RECURSIVE XorN(_, _, _)
XorN(x, y, n) ==
  IF n = 0 THEN 0
  ELSE (((x % 2) + (y % 2)) % 2) + 2 * XorN(x \div 2, y \div 2, n - 1)

RECURSIVE OrN(_, _, _)
OrN(x, y, n) ==
  IF n = 0 THEN 0
  ELSE Max(x % 2, y % 2) + 2 * OrN(x \div 2, y \div 2, n - 1)

RECURSIVE Pow2(_)
Pow2(k) == IF k = 0 THEN 1 ELSE 2 * Pow2(k - 1)

\* a ^ b
Xor32(a, b) == <<XorN(a[1], b[1], 16), XorN(a[2], b[2], 16)>>
\* a | c for a constant c < 2^16
OrLow(a, c) == <<a[1], OrN(a[2], c, 16)>>
\* a >>> k, 0 < k < 16
Shr(a, k) ==
  <<a[1] \div Pow2(k), (a[2] \div Pow2(k)) + (a[1] % Pow2(k)) * Pow2(16 - k)>>
\* (a + b) mod 2^32
Add32(a, b) ==
  LET lo == a[2] + b[2]
  IN  <<(a[1] + b[1] + (lo \div Half)) % Half, lo % Half>>
\* the full 32-bit product of two 16-bit halves
Mul16(x, y) ==
  LET p1 == (x % 256) * y
      p2 == (x \div 256) * y
      low == p1 + (p2 % 256) * 256
  IN  <<((low \div Half) + (p2 \div 256)) % Half, low % Half>>
\* Math.imul(a, b): the low 32 bits of the product
Imul(a, b) ==
  LET ll == Mul16(a[2], b[2])
      cross == (Mul16(a[1], b[2])[2] + Mul16(a[2], b[1])[2]) % Half
  IN  <<(ll[1] + cross) % Half, ll[2]>>

\* seed >>> 0 for |seed| < 2^16
ToUint32(seed) == IF seed >= 0 THEN <<0, seed>> ELSE <<Half - 1, Half + seed>>

\* createRng(seed): the generator's state t after construction
createRng(seed) == ToUint32(seed)

\* next(): the state after the draw and the 32-bit numerator of r = x / 2^32
RngStep(t) == Add32(t, <<IncHi, IncLo>>)
RngOut(t1) ==
  LET x1 == Imul(Xor32(t1, Shr(t1, 15)), OrLow(t1, 1))
      x2 == Xor32(x1, Add32(x1, Imul(Xor32(x1, Shr(x1, 7)), OrLow(x1, 61))))
  IN  Xor32(x2, Shr(x2, 14))
next(t) == [t |-> RngStep(t), r |-> RngOut(RngStep(t))]

\* Box-Muller: z0 = sqrt(-2 ln u1) * cos(2 pi u2), in units of 1/Scale.  The
\* transcendental functions are tabulated on the two leading bits of each
\* uniform draw (bucket midpoints 1/8, 3/8, 5/8, 7/8).
BoxMuller(r1, r2) ==
  LET b1 == r1[1] \div 16384
      b2 == r2[1] \div 16384
      mag == CASE b1 = 0 -> 29 [] b1 = 1 -> 20 [] b1 = 2 -> 14 [] OTHER -> 7
  IN  IF b2 \in {0, 3} THEN mag ELSE 0 - mag

\* faulty variant: the deviate is not scaled by stdDev
NormalUnscaled(t, mean, stdDev) ==
  LET d1 == next(t)
      d2 == next(d1.t)
  IN  [t |-> d2.t, v |-> mean * Scale + BoxMuller(d1.r, d2.r) * Scale]

\* normal(mean, stdDev): two draws; the value mean + z0 * stdDev in units of
\* 1/Scale^2 (mean and stdDev are fixed-point).
normal(t, mean, stdDev) ==
  LET d1 == next(t)
      d2 == next(d1.t)
  IN  [t |-> d2.t, v |-> mean * Scale + BoxMuller(d1.r, d2.r) * stdDev]

----------------------------------------------------------------------------
(* simulate.ts: ledger helpers *)

clamp01(x) == Max(0, Min(Scale, x))

\* sumQty(batches, sku, state)
RECURSIVE sumQty(_, _, _)
sumQty(batches, sku, state) ==
  IF batches = <<>> THEN 0
  ELSE (IF Head(batches).sku = sku /\ Head(batches).state = state
        THEN Head(batches).qty ELSE 0) + sumQty(Tail(batches), sku, state)

\* Array.prototype.sort is stable: a batch goes behind every batch that does
\* not expire later than it.
RECURSIVE InsertFifo(_, _)
InsertFifo(sorted, b) ==
  IF sorted = <<>> THEN <<b>>
  ELSE IF Head(sorted).daysToExpire <= b.daysToExpire
       THEN <<Head(sorted)>> \o InsertFifo(Tail(sorted), b)
       ELSE <<b>> \o sorted

RECURSIVE SortInto(_, _)
SortInto(sorted, rest) ==
  IF rest = <<>> THEN sorted
  ELSE SortInto(InsertFifo(sorted, Head(rest)), Tail(rest))

\* faulty variant: the ledger is left in the order it has
KeepOrder(batches) == batches

\* sortFifo(batches): soonest to expire first
sortFifo(batches) == SortInto(<<>>, batches)

\* faulty variant: emptied batches stay in the ledger
PruneNothing(batches) == batches

\* the splice loops that remove emptied batches
PruneEmpty(batches) == SelectSeq(batches, LAMBDA b : b.qty > 0)

\* the for-loop of takeFromBatches over the sorted ledger
RECURSIVE TakeLoop(_, _, _, _, _, _)
TakeLoop(bs, i, sku, state, remaining, taken) ==
  IF i > Len(bs) \/ remaining <= 0 THEN [batches |-> bs, taken |-> taken]
  ELSE LET b == bs[i]
           q == Min(b.qty, remaining)
       IN  IF b.sku # sku \/ b.state # state \/ q <= 0
           THEN TakeLoop(bs, i + 1, sku, state, remaining, taken)
           ELSE TakeLoop([bs EXCEPT ![i].qty = @ - q], i + 1, sku, state,
                         remaining - q, taken + q)

\* faulty variant: the quantity asked for is returned instead of the quantity taken
TakeReportsWanted(batches, sku, state, qtyWanted) ==
  IF qtyWanted <= 0 THEN [batches |-> batches, taken |-> 0]
  ELSE LET r == TakeLoop(sortFifo(batches), 1, sku, state, qtyWanted, 0)
       IN  [batches |-> PruneEmpty(r.batches), taken |-> qtyWanted]

\* takeFromBatches(batches, sku, state, qtyWanted): the ledger afterwards and
\* the quantity taken
takeFromBatches(batches, sku, state, qtyWanted) ==
  IF qtyWanted <= 0 THEN [batches |-> batches, taken |-> 0]
  ELSE LET r == TakeLoop(sortFifo(batches), 1, sku, state, qtyWanted, 0)
       IN  [batches |-> PruneEmpty(r.batches), taken |-> r.taken]

\* the pricing rules sorted by threshold (stable)
RECURSIVE InsertRule(_, _)
InsertRule(sorted, r) ==
  IF sorted = <<>> THEN <<r>>
  ELSE IF Head(sorted).daysToExpireAtMost <= r.daysToExpireAtMost
       THEN <<Head(sorted)>> \o InsertRule(Tail(sorted), r)
       ELSE <<r>> \o sorted

RECURSIVE SortRules(_, _)
SortRules(sorted, rest) ==
  IF rest = <<>> THEN sorted
  ELSE SortRules(InsertRule(sorted, Head(rest)), Tail(rest))

RECURSIVE FirstRule(_, _)
FirstRule(rules, minDays) ==
  IF rules = <<>> THEN Scale
  ELSE IF minDays <= Head(rules).daysToExpireAtMost
       THEN Head(rules).priceMultiplier
       ELSE FirstRule(Tail(rules), minDays)

\* faulty variant: the rules are scanned in the order they are listed
applyPricingUnsorted(item, p, minDaysToExpireFresh) ==
  LET multiplier == FirstRule(p.pricing, minDaysToExpireFresh)
  IN  [price |-> Max(0, item.basePrice * multiplier), multiplier |-> multiplier]

\* applyPricing(item, policy, minDaysToExpireFresh): multiplier in 1/Scale,
\* price in 1/Scale^2
applyPricing(item, p, minDaysToExpireFresh) ==
  LET multiplier == FirstRule(SortRules(<<>>, p.pricing), minDaysToExpireFresh)
  IN  [price |-> Max(0, item.basePrice * multiplier), multiplier |-> multiplier]

RECURSIVE IntPow(_, _)
IntPow(b, e) == IF e = 0 THEN 1 ELSE b * IntPow(b, e - 1)

\* Math.pow(m / Scale, e) for a whole exponent e, as the rational n/d
PowR(m, e) ==
  IF e >= 0 THEN [n |-> IntPow(m, e), d |-> IntPow(Scale, e)]
  ELSE [n |-> IntPow(Scale, 0 - e), d |-> IntPow(m, 0 - e)]

\* the noise factor Math.max(0, 1 + rng.normal(0, sd)) in 1/Scale^2
NoiseFactor(v) == Max(0, Scale2 + v)

\* demandForDay: the generator state afterwards, the price effect and the
\* demand base * priceEffect * noise as the rational n/d
demandForDay(item, priceMultiplier, t, demandNoiseStdDev) ==
  LET base == Max(0, item.baseDailyDemand)
      priceEffect == PowR(Max(Scale \div 20, priceMultiplier), item.priceElasticity)
      nrm == normal(t, 0, demandNoiseStdDev)
      noise == NoiseFactor(nrm.v)
  IN  [t |-> nrm.t,
       priceEffect |-> priceEffect,
       noise |-> noise,
       n |-> Max(0, base * priceEffect.n * noise),
       d |-> priceEffect.d * Scale2]

\* policy.perSku[sku] on a plain object: the own entry, else the member of
\* that name inherited from Object.prototype (a function or object: truthy),
\* else undefined
ObjectPrototype == {"constructor", "toString", "valueOf", "hasOwnProperty"}

HasMember(pol, sku) == sku \in DOMAIN pol.perSku \/ sku \in ObjectPrototype

\* what the pipeline reads off an inherited member: every ItemPolicy field is
\* undefined, so `x > 0` and `fresh <= reorderPoint` are false, `pricing ?? []`
\* is empty and Math.max(0, Math.round(orderUpTo)) is NaN, which is not > 0.
\* The record below gives each of these tests the same outcome.
InheritedMember ==
  [reorderPoint |-> 0 - 1, orderUpTo |-> 0, pricing |-> <<>>,
   donateDaysToExpireAtMost |-> 0, donateMaxFractionPerDay |-> 0,
   freezeDaysToExpireAtMost |-> 0, freezeMaxUnitsPerDay |-> 0]

PolicyAt(pol, sku) ==
  IF sku \in DOMAIN pol.perSku THEN pol.perSku[sku] ELSE InheritedMember

\* ensurePolicyComplete: the SKU named by the error thrown, or "" when the
\* policy is complete
RECURSIVE ensurePolicyComplete(_, _)
ensurePolicyComplete(its, pol) ==
  IF its = <<>> THEN ""
  ELSE IF ~HasMember(pol, Head(its).sku) THEN Head(its).sku
       ELSE ensurePolicyComplete(Tail(its), pol)

\* faulty variant: the opening batches have spent a day of their shelf life
RECURSIVE InitialBatchesAged(_, _)
InitialBatchesAged(its, pol) ==
  IF its = <<>> THEN <<>>
  ELSE LET item == Head(its)
           startQty == Max(0, Round(PolicyAt(pol, item.sku).orderUpTo, Scale))
       IN  (IF startQty > 0
            THEN <<[sku |-> item.sku, qty |-> startQty,
                    daysToExpire |-> item.shelfLifeDays - 1, state |-> "fresh"]>>
            ELSE <<>>) \o InitialBatchesAged(Tail(its), pol)

\* createInitialState(items, policy) after ensurePolicyComplete has passed
RECURSIVE InitialBatches(_, _)
InitialBatches(its, pol) ==
  IF its = <<>> THEN <<>>
  ELSE LET item == Head(its)
           startQty == Max(0, Round(PolicyAt(pol, item.sku).orderUpTo, Scale))
       IN  (IF startQty > 0
            THEN <<[sku |-> item.sku, qty |-> startQty,
                    daysToExpire |-> Max(1, item.shelfLifeDays), state |-> "fresh"]>>
            ELSE <<>>) \o InitialBatches(Tail(its), pol)

createInitialState(its, pol) ==
  [day |-> 0, inventory |-> InitialBatches(its, pol), pendingDeliveries |-> <<>>]

\* faulty variant: the run works on the caller's object
SharedReference(obj) == [shared |-> TRUE, value |-> obj]

\* structuredClone(initialState): a copy that shares nothing with the
\* caller's object
structuredClone(obj) == [shared |-> FALSE, value |-> obj]

----------------------------------------------------------------------------
(* Inputs: catalogs, policies, configurations, initial states *)

MaxDays == 3

ItemA ==
  [sku |-> "A", unitCost |-> Scale, basePrice |-> 2 * Scale,
   shelfLifeDays |-> 2, leadTimeDays |-> 1, baseDailyDemand |-> 2,
   priceElasticity |-> 0 - 1, shrinkRate |-> Scale \div 4, canFreeze |-> TRUE,
   freezeCostPerUnit |-> Scale \div 4, frozenShelfLifeDays |-> 2,
   frozenPriceMultiplier |-> (3 * Scale) \div 4]

ItemB ==
  [sku |-> "B", unitCost |-> Scale \div 2, basePrice |-> (3 * Scale) \div 2,
   shelfLifeDays |-> 1, leadTimeDays |-> 0, baseDailyDemand |-> 3,
   priceElasticity |-> 0, shrinkRate |-> 0, canFreeze |-> FALSE,
   freezeCostPerUnit |-> 0, frozenShelfLifeDays |-> 1,
   frozenPriceMultiplier |-> Scale]

ItemC ==
  [sku |-> "C", unitCost |-> Scale, basePrice |-> 3 * Scale,
   shelfLifeDays |-> 3, leadTimeDays |-> 2, baseDailyDemand |-> 1,
   priceElasticity |-> 0 - 2, shrinkRate |-> Scale \div 2, canFreeze |-> TRUE,
   freezeCostPerUnit |-> Scale \div 2, frozenShelfLifeDays |-> 1,
   frozenPriceMultiplier |-> Scale \div 2]

\* Scenario A's item: demand 50 a day, no elasticity, no shrink, no freezing
ItemS ==
  [sku |-> "S", unitCost |-> Scale, basePrice |-> 2 * Scale,
   shelfLifeDays |-> 5, leadTimeDays |-> 1, baseDailyDemand |-> 50,
   priceElasticity |-> 0, shrinkRate |-> 0, canFreeze |-> FALSE,
   freezeCostPerUnit |-> 0, frozenShelfLifeDays |-> 1,
   frozenPriceMultiplier |-> Scale]

\* an item whose SKU is the name of a member of Object.prototype
ItemP == [ItemA EXCEPT !.sku = "constructor"]

\* Scenario B's item: a shelf life of one day and no demand, shrink or freezing
ItemT ==
  [sku |-> "T", unitCost |-> Scale, basePrice |-> 2 * Scale,
   shelfLifeDays |-> 1, leadTimeDays |-> 1, baseDailyDemand |-> 0,
   priceElasticity |-> 0, shrinkRate |-> 0, canFreeze |-> FALSE,
   freezeCostPerUnit |-> 0, frozenShelfLifeDays |-> 1,
   frozenPriceMultiplier |-> Scale]

\* an item that only shrinks, with a lead time of two days
ItemL ==
  [ItemT EXCEPT !.sku = "L", !.shelfLifeDays = 5, !.leadTimeDays = 2,
                !.shrinkRate = Scale \div 2]

Catalogs == {<<ItemA>>, <<ItemA, ItemB>>, <<ItemC, ItemB>>}

Rule(days, mult) == [daysToExpireAtMost |-> days, priceMultiplier |-> mult]

\* (s, S) with markdowns listed largest threshold first, donation and freezing
PolMarkdown ==
  [reorderPoint |-> 2 * Scale, orderUpTo |-> 5 * Scale,
   pricing |-> <<Rule(2, (3 * Scale) \div 4), Rule(1, Scale \div 2)>>,
   donateDaysToExpireAtMost |-> 1, donateMaxFractionPerDay |-> Scale \div 2,
   freezeDaysToExpireAtMost |-> 1, freezeMaxUnitsPerDay |-> 2 * Scale]

\* reorder point equal to the order-up-to level, nothing else
PolLevel ==
  [reorderPoint |-> 3 * Scale, orderUpTo |-> 3 * Scale,
   pricing |-> <<>>,
   donateDaysToExpireAtMost |-> 0, donateMaxFractionPerDay |-> 0,
   freezeDaysToExpireAtMost |-> 0, freezeMaxUnitsPerDay |-> 0]

\* fractional levels, a donation fraction above 1, a free markdown
PolFraction ==
  [reorderPoint |-> Scale, orderUpTo |-> (9 * Scale) \div 2,
   pricing |-> <<Rule(1, 0), Rule(3, (3 * Scale) \div 2)>>,
   donateDaysToExpireAtMost |-> 2, donateMaxFractionPerDay |-> (3 * Scale) \div 2,
   freezeDaysToExpireAtMost |-> 2, freezeMaxUnitsPerDay |-> (3 * Scale) \div 2]

\* reorder point above the order-up-to level (a policy nobody normalised)
PolInverted ==
  [reorderPoint |-> 6 * Scale, orderUpTo |-> 4 * Scale,
   pricing |-> <<Rule(1, Scale \div 4)>>,
   donateDaysToExpireAtMost |-> 1, donateMaxFractionPerDay |-> Scale \div 4,
   freezeDaysToExpireAtMost |-> 3, freezeMaxUnitsPerDay |-> Scale \div 2]

\* Scenario A's policy: no markdown, no donation, no freezing
PolPlain ==
  [reorderPoint |-> 0, orderUpTo |-> 100 * Scale,
   pricing |-> <<>>,
   donateDaysToExpireAtMost |-> 0, donateMaxFractionPerDay |-> 0,
   freezeDaysToExpireAtMost |-> 0, freezeMaxUnitsPerDay |-> 0]

\* Scenario B's policy: order up to 7 when nothing is left, nothing else
PolHold ==
  [reorderPoint |-> 0, orderUpTo |-> 7 * Scale,
   pricing |-> <<>>,
   donateDaysToExpireAtMost |-> 0, donateMaxFractionPerDay |-> 0,
   freezeDaysToExpireAtMost |-> 0, freezeMaxUnitsPerDay |-> 0]

\* two markdown rules with one threshold and different multipliers, listed
\* behind a rule with a larger threshold
PolTie ==
  [reorderPoint |-> 2 * Scale, orderUpTo |-> 5 * Scale,
   pricing |-> <<Rule(3, (3 * Scale) \div 4), Rule(2, Scale \div 2),
                 Rule(2, Scale \div 4)>>,
   donateDaysToExpireAtMost |-> 0, donateMaxFractionPerDay |-> 0,
   freezeDaysToExpireAtMost |-> 0, freezeMaxUnitsPerDay |-> 0]

\* (s, S) = (5, 6): an order on every day the stock is below 6
PolOverlap == [PolHold EXCEPT !.reorderPoint = 5 * Scale, !.orderUpTo = 6 * Scale]

ItemPolicies == {PolMarkdown, PolLevel, PolFraction, PolInverted}

Skus(its) == {its[i].sku : i \in 1..Len(its)}

\* InventoryPolicy: one ItemPolicy per SKU of `covered`
PolicyOf(covered, ip) == [perSku |-> [s \in covered |-> ip]]

Batch(sku, qty, days, st) ==
  [sku |-> sku, qty |-> qty, daysToExpire |-> days, state |-> st]
Delivery(sku, qty, days) == [sku |-> sku, qty |-> qty, arrivingInDays |-> days]

\* a store in mid-operation: several fresh batches listed latest expiry
\* first, frozen stock, deliveries under way
StateMid(its) ==
  [day |-> 0,
   inventory |-> <<Batch(its[1].sku, 3, 2, "fresh"), Batch(its[1].sku, 4, 1, "fresh"),
                   Batch(its[1].sku, 2, 2, "frozen"), Batch("B", 2, 1, "fresh")>>,
   pendingDeliveries |-> <<Delivery(its[1].sku, 2, 1), Delivery("B", 1, 2)>>]

StateA ==
  [day |-> 0, inventory |-> <<Batch("S", 100, 5, "fresh")>>,
   pendingDeliveries |-> <<>>]

StateB ==
  [day |-> 0, inventory |-> <<Batch("T", 7, 1, "fresh")>>,
   pendingDeliveries |-> <<>>]

\* every batch holds units; one delivery on order carries none
StateEmptyOrder ==
  [day |-> 0, inventory |-> <<Batch("A", 3, 2, "fresh")>>,
   pendingDeliveries |-> <<Delivery("A", 0, 1)>>]

\* every batch holds units; a delivery of another SKU on order carries none
StateEmptyOrderB ==
  [day |-> 0, inventory |-> <<Batch("A", 3, 2, "fresh")>>,
   pendingDeliveries |-> <<Delivery("B", 0, 1)>>]

Seeds == {42, 0 - 1}
NoiseLevels == {0, Scale}

Config(days, seed, sd, cs) ==
  [days |-> days, seed |-> seed, holdingCostPerUnitPerDay |-> Scale \div 20,
   wasteDisposalCostPerUnit |-> Scale \div 10, demandNoiseStdDev |-> sd,
   countStockouts |-> cs]

\* config.days: no day, one day, the longest run
DayCounts == {0, 1, MaxDays}

Configs ==
  {Config(d, sd, n, cs) : d \in DayCounts, sd \in Seeds, n \in NoiseLevels,
                          cs \in BOOLEAN}

Input(its, pol, cfg, st) ==
  [items |-> its, policy |-> pol, config |-> cfg, initialState |-> st]

\* complete policies, with and without a caller-supplied initial state
CompleteInputs ==
  {Input(its, PolicyOf(Skus(its), ip), cfg, st) :
     its \in Catalogs, ip \in ItemPolicies, cfg \in Configs,
     st \in {<<>>}} \cup
  {Input(its, PolicyOf(Skus(its), ip), cfg, <<StateMid(its)>>) :
     its \in Catalogs, ip \in ItemPolicies, cfg \in Configs}

\* policies that lack the entry of one or more catalog SKUs
IncompleteInputs ==
  UNION {{Input(its, PolicyOf(Skus(its) \ miss, PolMarkdown),
                Config(1, 42, 0, TRUE), st) :
            miss \in (SUBSET Skus(its)) \ {{}},
            st \in {<<>>, <<StateMid(its)>>}} : its \in Catalogs}

\* an empty policy for a catalog whose SKU names an inherited member
InheritedInputs ==
  {Input(<<ItemP>>, PolicyOf({}, PolMarkdown), Config(d, 42, 0, TRUE), st) :
     d \in {1, 2}, st \in {<<>>, <<StateMid(<<ItemP>>)>>}}

ScenarioInputs ==
  {Input(<<ItemS>>, PolicyOf({"S"}, PolPlain), Config(1, sd, 0, cs), <<StateA>>) :
     sd \in Seeds, cs \in BOOLEAN}

\* Scenario B: the batch comes from createInitialState or from the caller
ScenarioBInputs ==
  {Input(<<ItemT>>, PolicyOf({"T"}, PolHold), Config(d, sd, 0, TRUE), st) :
     d \in {1, 2}, sd \in Seeds, st \in {<<>>, <<StateB>>}}

\* a catalog that lists one SKU twice
DuplicateInputs ==
  {Input(<<ItemC, ItemC>>, PolicyOf({"C"}, ip), Config(2, 42, 0, TRUE), st) :
     ip \in {PolMarkdown, PolLevel}, st \in {<<>>, <<StateMid(<<ItemC>>)>>}}

EmptyOrderInputs ==
  {Input(<<ItemA>>, PolicyOf({"A"}, ip), Config(2, 42, 0, TRUE), <<StateEmptyOrder>>) :
     ip \in {PolLevel, PolPlain}} \cup
  {Input(<<ItemA, ItemB>>, PolicyOf({"A", "B"}, PolLevel), Config(1, 42, 0, TRUE),
         <<StateEmptyOrderB>>)}

\* markdown rules that share a threshold
TieInputs ==
  {Input(<<ItemA>>, PolicyOf({"A"}, PolTie), Config(1, 42, 0, cs), <<>>) :
     cs \in BOOLEAN}

\* buildBaselinePolicy, the entry of one item (baseDailyDemand is whole here)
BaselineItemPolicy(it) ==
  LET daily == Max(1, it.baseDailyDemand)
      orderUpTo == Max(1, Round(daily * 12, 10))
      reorderPoint == Max(0, Round(daily * 7, 10))
  IN  [reorderPoint |-> reorderPoint * Scale, orderUpTo |-> orderUpTo * Scale,
       pricing |-> <<Rule(2, (9 * Scale) \div 10), Rule(1, (3 * Scale) \div 4),
                     Rule(0, (11 * Scale) \div 20)>>,
       donateDaysToExpireAtMost |-> 1,
       donateMaxFractionPerDay |-> Scale \div 10,
       freezeDaysToExpireAtMost |-> IF it.canFreeze THEN 1 ELSE 0,
       freezeMaxUnitsPerDay |->
         IF it.canFreeze THEN Max(0, Round(daily * 15, 100)) * Scale ELSE 0]

\* the last item of the catalog that carries the SKU writes perSku[sku]
buildBaselinePolicy(its) ==
  [perSku |->
     [s \in Skus(its) |->
        LET last == CHOOSE i \in 1..Len(its) :
                      /\ its[i].sku = s
                      /\ \A j \in (i + 1)..Len(its) : its[j].sku # s
        IN  BaselineItemPolicy(its[last])]]

\* the workflow's baseline policy on a run of its own
BaselineInputs ==
  {Input(<<ItemA, ItemB>>, buildBaselinePolicy(<<ItemA, ItemB>>),
         Config(2, 42, 0, TRUE), <<>>)}

\* orders of successive days under way together: four days, so that the
\* second of them arrives
OverlapInputs ==
  {Input(<<ItemL>>, PolicyOf({"L"}, PolOverlap), Config(MaxDays + 1, 42, 0, TRUE), <<>>)}

Inputs ==
  CompleteInputs \cup IncompleteInputs \cup InheritedInputs \cup ScenarioInputs
    \cup ScenarioBInputs \cup EmptyOrderInputs \cup DuplicateInputs
    \cup TieInputs \cup OverlapInputs \cup BaselineInputs

----------------------------------------------------------------------------
(* eval.ts.  A finite number is the rational n/d (d > 0); besides the finite *)
(* numbers a double is +Infinity or NaN.  Weights count units of half the    *)
(* 1e-9 floor of the denominator; a sum above MaxDouble, the largest finite  *)
(* double in these units, overflows to +Infinity.  Sub-scores count units of *)
(* 1/ScoreScale.                                                             *)

ScoreScale == 10 * 10 * 10
\* the 1e-9 of Math.max(1e-9, ...) in weight units
Eps == 2
\* Number.MAX_VALUE in weight units
MaxDouble == 12

Rat(n, d) == [k |-> "fin", n |-> n, d |-> d]
PosInf == [k |-> "inf", n |-> 1, d |-> 1]
NaN == [k |-> "nan", n |-> 0, d |-> 1]

RatLeq(a, b) == a.n * b.d <= b.n * a.d
RatLess(a, b) == a.n * b.d < b.n * a.d
Zero == Rat(0, 1)
One == Rat(1, 1)

\* clamp01 of eval.ts: Math.max(0, Math.min(1, x)); NaN stays NaN
evalClamp01(x) ==
  IF x.k = "nan" THEN NaN
  ELSE IF x.k = "inf" THEN One
  ELSE IF RatLess(x, Zero) THEN Zero
  ELSE IF RatLess(One, x) THEN One
  ELSE x

\* safeDiv(n, d) on finite integers
safeDiv(n, d) == IF d = 0 THEN Zero ELSE Rat(n, d)

\* 1 / (1 + exp(-z)) in units of 1/ScoreScale, tabulated on floor(2|z|); it is
\* exactly 1 from z = 40 on (exp underflows against 1) and mirrored below 0
SigmoidTable(m) ==
  CASE m = 0 -> 500 [] m = 1 -> 622 [] m = 2 -> 731 [] m = 3 -> 818
    [] m = 4 -> 881 [] m = 5 -> 924 [] m = 6 -> 953 [] m = 7 -> 971
    [] m \in 8..11 -> 982 [] m \in 12..79 -> 998 [] OTHER -> 1000

\* faulty variant: a slope of 1 in place of 3
LogisticGentle(value, target, sign) ==
  LET num == (value.n * target.d - value.d * target.n) * sign
      den == value.d * target.n
      m == (2 * (IF num >= 0 THEN num ELSE 0 - num)) \div den
  IN  Rat(IF num >= 0 THEN SigmoidTable(m) ELSE ScoreScale - SigmoidTable(m),
          ScoreScale)

\* the logistic of z = 3 (x - 1) for x = value / target, target > 0
Logistic(value, target, sign) ==
  LET num == 3 * (value.n * target.d - value.d * target.n) * sign
      den == value.d * target.n
      m == (2 * (IF num >= 0 THEN num ELSE 0 - num)) \div den
  IN  Rat(IF num >= 0 THEN SigmoidTable(m) ELSE ScoreScale - SigmoidTable(m),
          ScoreScale)

normalizePositive(value, target) ==
  IF RatLeq(target, Zero)
  THEN evalClamp01(IF RatLess(Zero, value) THEN One ELSE Zero)
  ELSE evalClamp01(Logistic(value, target, 1))

\* faulty variant: with a target <= 0 only a value below zero is favourable
normalizeLowerIsBetterStrict(value, target) ==
  IF RatLeq(target, Zero)
  THEN evalClamp01(IF RatLess(value, Zero) THEN One ELSE Zero)
  ELSE evalClamp01(Logistic(value, target, 0 - 1))

normalizeLowerIsBetter(value, target) ==
  IF RatLeq(target, Zero)
  THEN evalClamp01(IF RatLeq(value, Zero) THEN One ELSE Zero)
  ELSE evalClamp01(Logistic(value, target, 0 - 1))

\* a + b in double arithmetic on nonnegative numbers: above `limit` the sum is
\* +Infinity
PlusF(a, b, limit) ==
  IF a.k = "inf" \/ b.k = "inf" THEN PosInf
  ELSE IF a.n + b.n > limit THEN PosInf
  ELSE Rat(a.n + b.n, 1)

Sum4(a, b, c, d, limit) ==
  PlusF(PlusF(PlusF(Rat(a, 1), Rat(b, 1), limit), Rat(c, 1), limit),
        Rat(d, 1), limit)

\* numer / denom in double arithmetic; numer counts 1/ScoreScale of a weight
\* unit
DivF(numer, denom) ==
  IF numer.k = "inf" /\ denom.k = "inf" THEN NaN
  ELSE IF numer.k = "inf" THEN PosInf
  ELSE IF denom.k = "inf" THEN Zero
  ELSE Rat(numer.n, denom.n * ScoreScale)

\* the score in units of 1/ScoreScale of a sub-score that is finite
Points(sc) == (sc.n * ScoreScale) \div sc.d

\* faulty variant: the plain mean of the four sub-scores, whatever the weights
FinalScoreUnweighted(w, b) ==
  evalClamp01(Rat(Points(b.profitScore) + Points(b.wasteReductionScore)
                    + Points(b.satisfactionScore) + Points(b.humanitarianScore),
                  4 * ScoreScale))

\* lines 42-52: the weighted sum of the sub-scores over the floored sum of the
\* weights, clamped
FinalScore(w, b) ==
  LET sumW == Sum4(w.profit, w.wasteReduction, w.satisfaction, w.humanitarian,
                   MaxDouble)
      denom == IF sumW.k = "inf" THEN PosInf ELSE Rat(Max(Eps, sumW.n), 1)
      numer == Sum4(w.profit * Points(b.profitScore),
                    w.wasteReduction * Points(b.wasteReductionScore),
                    w.satisfaction * Points(b.satisfactionScore),
                    w.humanitarian * Points(b.humanitarianScore),
                    MaxDouble * ScoreScale)
  IN  evalClamp01(DivF(numer, denom))

\* faulty variant: the waste and donation rates are taken over the units sold
RawRatesOverSold(sm) ==
  LET fill == safeDiv(sm.totals.stockout, Max(1, sm.totals.demand))
  IN  [wasteRate |-> safeDiv(sm.totals.wasted, Max(1, sm.totals.sold)),
       fillRate |-> Rat(fill.d - fill.n, fill.d),
       donationRate |-> safeDiv(sm.totals.donated, Max(1, sm.totals.sold))]

\* lines 30-35: the raw rates, fillRate before it is clamped
RawRates(sm) ==
  LET handled == sm.totals.sold + sm.totals.wasted + sm.totals.donated
      fill == safeDiv(sm.totals.stockout, Max(1, sm.totals.demand))
  IN  [wasteRate |-> safeDiv(sm.totals.wasted, Max(1, handled)),
       fillRate |-> Rat(fill.d - fill.n, fill.d),
       donationRate |-> safeDiv(sm.totals.donated, Max(1, handled))]

\* evaluateSimulation(sim, cfg)
evaluateSimulation(sm, c) ==
  LET daysE == Max(1, sm.config.days)
      profitPerDay == Rat(sm.totals.profit, daysE)
      wasteRate == RawRates(sm).wasteRate
      fillRate == RawRates(sm).fillRate
      donationRate == RawRates(sm).donationRate
      profitScore == normalizePositive(profitPerDay, c.profitPerDayTarget)
      wasteReductionScore == normalizeLowerIsBetter(wasteRate, c.wasteRateTarget)
      satisfactionScore == normalizePositive(fillRate, c.satisfactionTarget)
      humanitarianScore == normalizePositive(donationRate, c.donationRateTarget)
  IN  [score |-> FinalScore(c.weights,
                            [profitScore |-> profitScore,
                             wasteReductionScore |-> wasteReductionScore,
                             satisfactionScore |-> satisfactionScore,
                             humanitarianScore |-> humanitarianScore]),
       breakdown |-> [profitScore |-> profitScore,
                      wasteReductionScore |-> wasteReductionScore,
                      satisfactionScore |-> satisfactionScore,
                      humanitarianScore |-> humanitarianScore],
       raw |-> [profitPerDay |-> profitPerDay,
                wasteRate |-> wasteRate,
                fillRate |-> evalClamp01(fillRate),
                donationRate |-> donationRate]]

\* Inputs of the evaluator
WeightValues == {0, 1, 3, MaxDouble}
Weights ==
  {[profit |-> a, wasteReduction |-> b, satisfaction |-> c, humanitarian |-> d] :
     a \in WeightValues, b \in WeightValues, c \in WeightValues, d \in WeightValues}

EvalCfg(w, pt, rt) ==
  [weights |-> w, profitPerDayTarget |-> Rat(pt, 1), wasteRateTarget |-> rt,
   satisfactionTarget |-> rt, donationRateTarget |-> rt]

EvalConfigs ==
  {EvalCfg(w, pt, rt) :
     w \in Weights, pt \in {0 - 2, 0, 3}, rt \in {Zero, Rat(1, 10), One}}

SimTotals(profit, demand, sold, stockout, wasted, donated) ==
  [revenue |-> 0, cogs |-> 0, holdingCost |-> 0, wasteCost |-> 0,
   freezeCost |-> 0, profit |-> profit, demand |-> demand, sold |-> sold,
   stockout |-> stockout, wasted |-> wasted, donated |-> donated]

\* finite totals: all zero, a profitable run, a losing run with waste and
\* stockouts, a run that only donated, a run that sold nothing of what was
\* asked for
EvalTotals ==
  {SimTotals(0, 0, 0, 0, 0, 0), SimTotals(9, 6, 6, 0, 0, 0),
   SimTotals(0 - 7, 8, 2, 6, 5, 1), SimTotals(0 - 1, 0, 0, 0, 0, 4),
   SimTotals(0 - 3, 4, 0, 4, 2, 0)}

EvalSims ==
  {[config |-> [days |-> d], totals |-> t] : d \in {0, MaxDays}, t \in EvalTotals}

----------------------------------------------------------------------------
(* State *)

VARIABLES
  items, policy, config, initialState, \* the caller's arguments (opts)
  call,          \* which of the caller's two successive calls is running
  pc,            \* position in simulateInventory
  state,         \* StoreState of the run: day, inventory, pendingDeliveries
  shared,        \* whether `state` is the caller's initialState object itself
  rng,           \* the generator's t
  draws,         \* number of next() calls made by the run
  day, k,        \* loop variables: the day, the index of the item
  loc,           \* the locals of the per-SKU loop body
  perSku, days, totals,
  result,        \* what the call returned
  first,         \* what the first call returned
  thrown,        \* the error thrown: <<>> or <<kind, sku>>
  dayOpen,       \* history: the ledger before the day's delivery receipt
  stageOpen,     \* history: the StoreState before the stage that ran last
  locs,          \* history: the locals of the day's finished SKU iterations
  received,      \* history: deliveries received, with the day of receipt
  ordered,       \* history: deliveries enqueued, with the day of the order
  trail,         \* history: the day's stages so far, each with the ledger it left
  other,         \* a second run, suspended between two of its steps: <<>> or <<locals>>
  search,        \* the frame of optimizePolicy while it runs its simulations
  args, ret,     \* a function applied on its own: its arguments, what it returned
  sim, cfg,      \* the arguments of evaluateSimulation
  evaluation     \* what evaluateSimulation returned: <<>> or <<result>>

vars ==
  <<items, policy, config, initialState, call, pc, state, shared, rng, draws,
    day, k, loc, perSku, days, totals, result, first, thrown, dayOpen,
    stageOpen, locs, received, ordered, trail, other, search, args, ret, sim, cfg,
    evaluation>>

evalVars == <<sim, cfg, evaluation>>
unitVars == <<args, ret>>
\* what no step of a run writes
inputVars == <<items, policy, config, evalVars, unitVars, other, search>>
histVars == <<dayOpen, stageOpen, locs, received, ordered, trail>>

\* one entry of the trail: the stage, the item's index, the ledger afterwards
Stage(name, i, inv) == [stage |-> name, k |-> i, inventory |-> inv]

ZeroTotals ==
  [revenue |-> 0, cogs |-> 0, holdingCost |-> 0, wasteCost |-> 0,
   freezeCost |-> 0, profit |-> 0, demand |-> 0, sold |-> 0, stockout |-> 0,
   wasted |-> 0, donated |-> 0]

ZeroLoc ==
  [sku |-> "", startingFresh |-> 0, startingFrozen |-> 0, frozenMoved |-> 0, donated |-> 0,
   minDaysToExpireFresh |-> 0, price |-> 0, priceMultiplier |-> 0,
   priceEffect |-> [n |-> 1, d |-> 1], noise |-> 0,
   demand |-> [n |-> 0, d |-> 1], demandInt |-> 0,
   soldFresh |-> 0, soldFrozen |-> 0, unmet |-> 0, stockout |-> 0,
   shrinkLost |-> 0, lostFresh |-> 0, lostFrozen |-> 0,
   endingFresh |-> 0, endingFrozen |-> 0, holdingCost |-> 0,
   wasted |-> 0, wastedFresh |-> 0, wastedFrozen |-> 0,
   freshOnHandNow |-> 0, need |-> 0, enqueued |-> 0]

NoState == [day |-> 0, inventory |-> <<>>, pendingDeliveries |-> <<>>]
NoResult == [days |-> <<>>, totals |-> ZeroTotals]
\* no search is under way: the run was called on its own
NoSearch == <<>>

Init ==
  /\ \E in \in Inputs :
       /\ items = in.items
       /\ policy = in.policy
       /\ config = in.config
       /\ initialState = in.initialState
  /\ call = 1
  /\ pc = "call"
  /\ state = NoState
  /\ shared = FALSE
  /\ rng = <<0, 0>>
  /\ draws = 0
  /\ day = 0
  /\ k = 1
  /\ loc = ZeroLoc
  /\ perSku = <<>>
  /\ days = <<>>
  /\ totals = ZeroTotals
  /\ result = NoResult
  /\ first = NoResult
  /\ thrown = <<>>
  /\ dayOpen = <<>>
  /\ stageOpen = NoState
  /\ locs = <<>>
  /\ received = <<>>
  /\ ordered = <<>>
  /\ trail = <<>>
  /\ other = <<>>
  /\ search = NoSearch
  /\ args = <<>>
  /\ ret = <<>>
  /\ sim = [config |-> [days |-> 0], totals |-> ZeroTotals]
  /\ cfg = EvalCfg([profit |-> 0, wasteReduction |-> 0, satisfaction |-> 0,
                    humanitarian |-> 0], 0, Zero)
  /\ evaluation = <<>>

\* A write to the run's StoreState reaches the caller's object exactly when
\* the two are the same object.
SetState(s) ==
  /\ state' = s
  /\ initialState' = IF shared THEN <<s>> ELSE initialState

SetInventory(inv) == SetState([state EXCEPT !.inventory = inv])

item == items[k]
p == PolicyAt(policy, item.sku)

----------------------------------------------------------------------------
(* simulateInventory: the stages as functions of the ledger *)

\* items.find((it) => it.sku === sku): <<>> or the first item of that SKU
RECURSIVE FindItem(_, _)
FindItem(its, sku) ==
  IF its = <<>> THEN <<>>
  ELSE IF Head(its).sku = sku THEN <<Head(its)>> ELSE FindItem(Tail(its), sku)

\* faulty variant: a received batch starts one day short of its shelf life
RECURSIVE ArrivalBatchesAged(_, _)
ArrivalBatchesAged(arriving, its) ==
  IF arriving = <<>> THEN <<>>
  ELSE LET a == Head(arriving)
           it == FindItem(its, a.sku)
       IN  (IF it = <<>> THEN <<>>
            ELSE <<Batch(a.sku, Max(0, a.qty), Max(1, it[1].shelfLifeDays - 1), "fresh")>>)
           \o ArrivalBatchesAged(Tail(arriving), its)

\* the batches pushed for the arriving deliveries
RECURSIVE ArrivalBatches(_, _)
ArrivalBatches(arriving, its) ==
  IF arriving = <<>> THEN <<>>
  ELSE LET a == Head(arriving)
           it == FindItem(its, a.sku)
       IN  (IF it = <<>> THEN <<>>
            ELSE <<Batch(a.sku, Max(0, a.qty), Max(1, it[1].shelfLifeDays), "fresh")>>)
           \o ArrivalBatches(Tail(arriving), its)

\* faulty variant: a delivery is received only once its countdown is below zero
ReceiveOverdue(st, its) ==
  LET counted == [i \in 1..Len(st.pendingDeliveries) |->
                    [st.pendingDeliveries[i] EXCEPT !.arrivingInDays = @ - 1]]
      arriving == SelectSeq(counted, LAMBDA d : d.arrivingInDays < 0)
      waiting == SelectSeq(counted, LAMBDA d : d.arrivingInDays >= 0)
  IN  [state |-> [st EXCEPT !.inventory = @ \o ArrivalBatches(arriving, its),
                            !.pendingDeliveries = waiting],
       arriving |-> arriving]

\* step 1: count every delivery down, receive those that are due
ReceiveDeliveries(st, its) ==
  LET counted == [i \in 1..Len(st.pendingDeliveries) |->
                    [st.pendingDeliveries[i] EXCEPT !.arrivingInDays = @ - 1]]
      arriving == SelectSeq(counted, LAMBDA d : d.arrivingInDays <= 0)
      waiting == SelectSeq(counted, LAMBDA d : d.arrivingInDays > 0)
  IN  [state |-> [st EXCEPT !.inventory = @ \o ArrivalBatches(arriving, its),
                            !.pendingDeliveries = waiting],
       arriving |-> arriving]

\* faulty variant: fresh batches are frozen whatever shelf life they have left
RECURSIVE FreezeLoopAny(_, _, _, _, _, _)
FreezeLoopAny(bs, i, itm, pol, remainingCap, frozenMoved) ==
  IF i > Len(bs) \/ remainingCap <= 0
  THEN [batches |-> bs, frozenMoved |-> frozenMoved]
  ELSE LET b == bs[i]
           q == Min(b.qty, remainingCap)
       IN  IF \/ b.sku # itm.sku
              \/ b.state # "fresh"
              \/ q <= 0
           THEN FreezeLoopAny(bs, i + 1, itm, pol, remainingCap, frozenMoved)
           ELSE FreezeLoopAny(
                  Append([bs EXCEPT ![i].qty = @ - q],
                         Batch(itm.sku, q, Max(1, itm.frozenShelfLifeDays), "frozen")),
                  i + 1, itm, pol, remainingCap - q, frozenMoved + q)

\* faulty variant: the frozen batch keeps the shelf life the fresh batch had left
RECURSIVE FreezeLoopKeepsDays(_, _, _, _, _, _)
FreezeLoopKeepsDays(bs, i, itm, pol, remainingCap, frozenMoved) ==
  IF i > Len(bs) \/ remainingCap <= 0
  THEN [batches |-> bs, frozenMoved |-> frozenMoved]
  ELSE LET b == bs[i]
           q == Min(b.qty, remainingCap)
       IN  IF \/ b.sku # itm.sku
              \/ b.state # "fresh"
              \/ b.daysToExpire > pol.freezeDaysToExpireAtMost
              \/ q <= 0
           THEN FreezeLoopKeepsDays(bs, i + 1, itm, pol, remainingCap, frozenMoved)
           ELSE FreezeLoopKeepsDays(
                  Append([bs EXCEPT ![i].qty = @ - q],
                         Batch(itm.sku, q, b.daysToExpire, "frozen")),
                  i + 1, itm, pol, remainingCap - q, frozenMoved + q)

\* the freeze loop; it runs over the array it appends the frozen batches to
RECURSIVE FreezeLoop(_, _, _, _, _, _)
FreezeLoop(bs, i, itm, pol, remainingCap, frozenMoved) ==
  IF i > Len(bs) \/ remainingCap <= 0
  THEN [batches |-> bs, frozenMoved |-> frozenMoved]
  ELSE LET b == bs[i]
           q == Min(b.qty, remainingCap)
       IN  IF \/ b.sku # itm.sku
              \/ b.state # "fresh"
              \/ b.daysToExpire > pol.freezeDaysToExpireAtMost
              \/ q <= 0
           THEN FreezeLoop(bs, i + 1, itm, pol, remainingCap, frozenMoved)
           ELSE FreezeLoop(
                  Append([bs EXCEPT ![i].qty = @ - q],
                         Batch(itm.sku, q, Max(1, itm.frozenShelfLifeDays), "frozen")),
                  i + 1, itm, pol, remainingCap - q, frozenMoved + q)

\* faulty variant: the frozen batch gets the whole quantity of the batch it is taken from
RECURSIVE FreezeLoopWhole(_, _, _, _, _, _)
FreezeLoopWhole(bs, i, itm, pol, remainingCap, frozenMoved) ==
  IF i > Len(bs) \/ remainingCap <= 0
  THEN [batches |-> bs, frozenMoved |-> frozenMoved]
  ELSE LET b == bs[i]
           q == Min(b.qty, remainingCap)
       IN  IF \/ b.sku # itm.sku
              \/ b.state # "fresh"
              \/ b.daysToExpire > pol.freezeDaysToExpireAtMost
              \/ q <= 0
           THEN FreezeLoopWhole(bs, i + 1, itm, pol, remainingCap, frozenMoved)
           ELSE FreezeLoopWhole(
                  Append([bs EXCEPT ![i].qty = @ - q],
                         Batch(itm.sku, b.qty, Max(1, itm.frozenShelfLifeDays), "frozen")),
                  i + 1, itm, pol, remainingCap - q, frozenMoved + q)

FreezeStageWhole(inv, itm, pol) ==
  IF itm.canFreeze /\ pol.freezeMaxUnitsPerDay > 0
  THEN LET r == FreezeLoopWhole(sortFifo(inv), 1, itm, pol,
                                Max(0, Floor(pol.freezeMaxUnitsPerDay, Scale)), 0)
       IN  [batches |-> PruneEmpty(r.batches), frozenMoved |-> r.frozenMoved]
  ELSE [batches |-> inv, frozenMoved |-> 0]

\* step 2: freeze conversion
FreezeStage(inv, itm, pol) ==
  IF itm.canFreeze /\ pol.freezeMaxUnitsPerDay > 0
  THEN LET r == FreezeLoop(sortFifo(inv), 1, itm, pol,
                           Max(0, Floor(pol.freezeMaxUnitsPerDay, Scale)), 0)
       IN  [batches |-> PruneEmpty(r.batches), frozenMoved |-> r.frozenMoved]
  ELSE [batches |-> inv, frozenMoved |-> 0]

\* fresh quantity of the SKU with daysToExpire <= limit
RECURSIVE EligibleQty(_, _, _)
EligibleQty(bs, sku, limit) ==
  IF bs = <<>> THEN 0
  ELSE (IF /\ Head(bs).sku = sku
           /\ Head(bs).state = "fresh"
           /\ Head(bs).daysToExpire <= limit
        THEN Head(bs).qty ELSE 0) + EligibleQty(Tail(bs), sku, limit)

\* faulty variant: the donation fraction is not clamped to 1
DonateStageUnclamped(inv, itm, pol) ==
  IF pol.donateMaxFractionPerDay > 0
  THEN LET sorted == sortFifo(inv)
           eligible == EligibleQty(sorted, itm.sku, pol.donateDaysToExpireAtMost)
           donateCap == Floor(eligible * pol.donateMaxFractionPerDay, Scale)
       IN  takeFromBatches(sorted, itm.sku, "fresh", donateCap)
  ELSE [batches |-> inv, taken |-> 0]

\* step 3: donation
DonateStage(inv, itm, pol) ==
  IF pol.donateMaxFractionPerDay > 0
  THEN LET sorted == sortFifo(inv)
           eligible == EligibleQty(sorted, itm.sku, pol.donateDaysToExpireAtMost)
           donateCap == Floor(eligible * clamp01(pol.donateMaxFractionPerDay), Scale)
       IN  takeFromBatches(sorted, itm.sku, "fresh", donateCap)
  ELSE [batches |-> inv, taken |-> 0]

FreshDays(inv, sku) ==
  {inv[i].daysToExpire : i \in {j \in 1..Len(inv) :
                                  inv[j].sku = sku /\ inv[j].state = "fresh"}}

\* step 4: the shelf life left on the most urgent fresh batch
MinDaysToExpireFresh(inv, itm) ==
  LET ds == FreshDays(inv, itm.sku)
  IN  IF ds = {} THEN itm.shelfLifeDays
      ELSE CHOOSE d \in ds : \A e \in ds : d <= e

\* faulty variant: demand is served from the frozen pool first
SellStageFrozenFirst(inv, itm, demandInt) ==
  LET frozen == takeFromBatches(inv, itm.sku, "frozen", demandInt)
      remainingDemand == Max(0, demandInt - frozen.taken)
      fresh == IF remainingDemand > 0
               THEN takeFromBatches(frozen.batches, itm.sku, "fresh", remainingDemand)
               ELSE [batches |-> frozen.batches, taken |-> 0]
  IN  [batches |-> fresh.batches, soldFresh |-> fresh.taken,
       soldFrozen |-> frozen.taken,
       unmet |-> Max(0, demandInt - fresh.taken - frozen.taken)]

\* step 6: sell fresh, then frozen
SellStage(inv, itm, demandInt) ==
  LET fresh == takeFromBatches(inv, itm.sku, "fresh", demandInt)
      remainingDemand == Max(0, demandInt - fresh.taken)
      frozen == IF remainingDemand > 0
                THEN takeFromBatches(fresh.batches, itm.sku, "frozen", remainingDemand)
                ELSE [batches |-> fresh.batches, taken |-> 0]
  IN  [batches |-> frozen.batches, soldFresh |-> fresh.taken,
       soldFrozen |-> frozen.taken,
       unmet |-> Max(0, demandInt - fresh.taken - frozen.taken)]

\* faulty variant: shrink is taken from the frozen pool first
ShrinkStageFrozenFirst(inv, itm) ==
  LET onHandAfterSales == sumQty(inv, itm.sku, "fresh") + sumQty(inv, itm.sku, "frozen")
      shrinkLost == Floor(onHandAfterSales * clamp01(itm.shrinkRate), Scale)
      frozen == IF shrinkLost > 0
                THEN takeFromBatches(inv, itm.sku, "frozen", shrinkLost)
                ELSE [batches |-> inv, taken |-> 0]
      lostFresh == shrinkLost - frozen.taken
      fresh == IF shrinkLost > 0 /\ lostFresh > 0
               THEN takeFromBatches(frozen.batches, itm.sku, "fresh", lostFresh)
               ELSE [batches |-> frozen.batches, taken |-> 0]
  IN  [batches |-> fresh.batches, shrinkLost |-> shrinkLost,
       lostFresh |-> fresh.taken, lostFrozen |-> frozen.taken]

\* step 7: shrink, fresh first
ShrinkStage(inv, itm) ==
  LET onHandAfterSales == sumQty(inv, itm.sku, "fresh") + sumQty(inv, itm.sku, "frozen")
      shrinkLost == Floor(onHandAfterSales * clamp01(itm.shrinkRate), Scale)
      fresh == IF shrinkLost > 0
               THEN takeFromBatches(inv, itm.sku, "fresh", shrinkLost)
               ELSE [batches |-> inv, taken |-> 0]
      lostFrozen == shrinkLost - fresh.taken
      frozen == IF shrinkLost > 0 /\ lostFrozen > 0
                THEN takeFromBatches(fresh.batches, itm.sku, "frozen", lostFrozen)
                ELSE [batches |-> fresh.batches, taken |-> 0]
  IN  [batches |-> frozen.batches, shrinkLost |-> shrinkLost,
       lostFresh |-> fresh.taken, lostFrozen |-> frozen.taken]

\* faulty variant: no batch is aged
AgeNothing(inv, sku) == inv

\* faulty variant: only the fresh batches of the SKU are aged
AgeBatchesFresh(inv, sku) ==
  [i \in 1..Len(inv) |->
     IF inv[i].sku = sku /\ inv[i].state = "fresh"
     THEN [inv[i] EXCEPT !.daysToExpire = @ - 1] ELSE inv[i]]

\* step 8: age the SKU's batches by one day, waste what has expired
AgeBatches(inv, sku) ==
  [i \in 1..Len(inv) |->
     IF inv[i].sku = sku THEN [inv[i] EXCEPT !.daysToExpire = @ - 1] ELSE inv[i]]

\* faulty variant: a batch is wasted only once its shelf life is below zero
ExpiredBelowZero(b, sku) == b.sku = sku /\ b.daysToExpire < 0

Expired(b, sku) == b.sku = sku /\ b.daysToExpire <= 0

\* faulty variant: every batch of the ledger is aged, whatever its SKU
AgeStageAll(inv, sku) ==
  LET aged == [i \in 1..Len(inv) |-> [inv[i] EXCEPT !.daysToExpire = @ - 1]]
      gone == SelectSeq(aged, LAMBDA b : Expired(b, b.sku))
  IN  [batches |-> SelectSeq(aged, LAMBDA b : ~Expired(b, b.sku)),
       wasted |-> sumQty(gone, sku, "fresh") + sumQty(gone, sku, "frozen"),
       wastedFresh |-> sumQty(gone, sku, "fresh"),
       wastedFrozen |-> sumQty(gone, sku, "frozen")]

AgeStage(inv, sku) ==
  LET aged == AgeBatches(inv, sku)
      gone == SelectSeq(aged, LAMBDA b : Expired(b, sku))
  IN  [batches |-> SelectSeq(aged, LAMBDA b : ~Expired(b, sku)),
       wasted |-> sumQty(gone, sku, "fresh") + sumQty(gone, sku, "frozen"),
       wastedFresh |-> sumQty(gone, sku, "fresh"),
       wastedFrozen |-> sumQty(gone, sku, "frozen")]

\* faulty variant: an order is placed only below the reorder point
ReorderBelowPoint(freshOnHandNow, itm, pol) ==
  IF freshOnHandNow * Scale < pol.reorderPoint
  THEN LET target == Max(0, Round(pol.orderUpTo, Scale))
           need == Max(0, target - freshOnHandNow)
       IN  IF need > 0
           THEN <<Delivery(itm.sku, need, Max(0, itm.leadTimeDays))>>
           ELSE <<>>
  ELSE <<>>

\* faulty variant: the delivery takes a day more than the lead time
ReorderLate(freshOnHandNow, itm, pol) ==
  IF freshOnHandNow * Scale <= pol.reorderPoint
  THEN LET target == Max(0, Round(pol.orderUpTo, Scale))
           need == Max(0, target - freshOnHandNow)
       IN  IF need > 0
           THEN <<Delivery(itm.sku, need, Max(0, itm.leadTimeDays) + 1)>>
           ELSE <<>>
  ELSE <<>>

\* faulty variant: the order is for the whole order-up-to level, whatever is
\* on hand
ReorderWholeTarget(freshOnHandNow, itm, pol) ==
  IF freshOnHandNow * Scale <= pol.reorderPoint
  THEN LET target == Max(0, Round(pol.orderUpTo, Scale))
       IN  IF target > 0
           THEN <<Delivery(itm.sku, target, Max(0, itm.leadTimeDays))>>
           ELSE <<>>
  ELSE <<>>

\* step 9: the deliveries the ordering decision enqueues (none or one)
ReorderStage(freshOnHandNow, itm, pol) ==
  IF freshOnHandNow * Scale <= pol.reorderPoint
  THEN LET target == Max(0, Round(pol.orderUpTo, Scale))
           need == Max(0, target - freshOnHandNow)
       IN  IF need > 0
           THEN <<Delivery(itm.sku, need, Max(0, itm.leadTimeDays))>>
           ELSE <<>>
  ELSE <<>>

----------------------------------------------------------------------------
(* simulateInventory: the actions *)

Throw(kind, sku) ==
  /\ thrown' = <<kind, sku>>
  /\ pc' = "thrown"

\* lines 131-153: check the policy, build the generator and the state
Start ==
  /\ pc = "call"
  /\ LET missing == ensurePolicyComplete(items, policy)
     IN  IF missing # ""
         THEN /\ Throw("ConfigError", missing)
              /\ UNCHANGED <<state, shared, rng, draws, initialState>>
         ELSE IF initialState # <<>>
         THEN LET c == structuredClone(initialState[1])
              IN  /\ state' = c.value
                  /\ shared' = c.shared
                  /\ rng' = createRng(config.seed)
                  /\ draws' = 0
                  /\ pc' = "day"
                  /\ UNCHANGED <<thrown, initialState>>
         ELSE IF \A sk \in Skus(items) : HasMember(policy, sk)
         THEN /\ state' = createInitialState(items, policy)
              /\ shared' = FALSE
              /\ rng' = createRng(config.seed)
              /\ draws' = 0
              /\ pc' = "day"
              /\ UNCHANGED <<thrown, initialState>>
         ELSE \* createInitialState reads a field of an undefined entry
              /\ Throw("TypeError", "")
              /\ rng' = createRng(config.seed)
              /\ draws' = 0
              /\ UNCHANGED <<state, shared, initialState>>
  /\ day' = 0
  /\ k' = 1
  /\ loc' = ZeroLoc
  /\ perSku' = <<>>
  /\ days' = <<>>
  /\ totals' = ZeroTotals
  /\ result' = NoResult
  /\ dayOpen' = <<>>
  /\ stageOpen' = NoState
  /\ locs' = <<>>
  /\ received' = <<>>
  /\ ordered' = <<>>
  /\ trail' = <<>>
  /\ UNCHANGED <<inputVars, call, first>>

\* lines 155-174: the day loop's head and the delivery receipt
Receive ==
  /\ pc = "day"
  /\ day < config.days
  /\ LET r == ReceiveDeliveries(state, items)
     IN  /\ SetState(r.state)
         /\ received' = received \o
              [i \in 1..Len(r.arriving) |->
                 [sku |-> r.arriving[i].sku, qty |-> r.arriving[i].qty, day |-> day]]
  /\ dayOpen' = state.inventory
  /\ stageOpen' = state
  /\ trail' = <<Stage("receive", 0, state'.inventory)>>
  /\ locs' = <<>>
  /\ perSku' = <<>>
  /\ k' = 1
  /\ pc' = "sku"
  /\ UNCHANGED <<inputVars, call, shared, rng, draws, day, loc, days, totals,
                 result, first, thrown, ordered>>

\* lines 176-214: the SKU loop's head, the starting quantities, the freeze
Freeze ==
  /\ pc = "sku"
  /\ k <= Len(items)
  /\ IF ~HasMember(policy, item.sku)
     THEN \* reads a field of an undefined policy entry
          /\ Throw("TypeError", item.sku)
          /\ UNCHANGED <<state, initialState, loc, stageOpen, trail>>
     ELSE LET r == FreezeStage(state.inventory, item, p)
          IN  /\ SetInventory(r.batches)
              /\ loc' = [ZeroLoc EXCEPT
                           !.sku = item.sku,
                           !.startingFresh = sumQty(state.inventory, item.sku, "fresh"),
                           !.startingFrozen = sumQty(state.inventory, item.sku, "frozen"),
                           !.frozenMoved = r.frozenMoved]
              /\ stageOpen' = state
              /\ trail' = Append(trail, Stage("freeze", k, state'.inventory))
              /\ pc' = "donate"
              /\ UNCHANGED thrown
  /\ UNCHANGED <<inputVars, call, shared, rng, draws, day, k, perSku, days,
                 totals, result, first, dayOpen, locs, received, ordered>>

\* lines 216-228
Donate ==
  /\ pc = "donate"
  /\ LET r == DonateStage(state.inventory, item, p)
     IN  /\ SetInventory(r.batches)
         /\ loc' = [loc EXCEPT !.donated = r.taken]
  /\ stageOpen' = state
  /\ trail' = Append(trail, Stage("donate", k, state'.inventory))
  /\ pc' = "price"
  /\ UNCHANGED <<inputVars, call, shared, rng, draws, day, k, perSku, days,
                 totals, result, first, thrown, dayOpen, locs, received, ordered>>

\* faulty variant: the price is set from the batches as they were before the
\* donation
PricingBeforeDonation ==
  /\ pc = "price"
  /\ LET minDays == MinDaysToExpireFresh(stageOpen.inventory, item)
         r == applyPricing(item, p, Max(0, minDays))
     IN  loc' = [loc EXCEPT !.minDaysToExpireFresh = minDays,
                            !.price = r.price,
                            !.priceMultiplier = r.multiplier]
  /\ stageOpen' = state
  /\ trail' = Append(trail, Stage("price", k, state.inventory))
  /\ pc' = "demand"
  /\ UNCHANGED <<inputVars, initialState, call, state, shared, rng, draws, day,
                 k, perSku, days, totals, result, first, thrown, dayOpen, locs,
                 received, ordered>>

\* lines 230-243
Pricing ==
  /\ pc = "price"
  /\ LET minDays == MinDaysToExpireFresh(state.inventory, item)
         r == applyPricing(item, p, Max(0, minDays))
     IN  loc' = [loc EXCEPT !.minDaysToExpireFresh = minDays,
                            !.price = r.price,
                            !.priceMultiplier = r.multiplier]
  /\ stageOpen' = state
  /\ trail' = Append(trail, Stage("price", k, state.inventory))
  /\ pc' = "demand"
  /\ UNCHANGED <<inputVars, initialState, call, state, shared, rng, draws, day,
                 k, perSku, days, totals, result, first, thrown, dayOpen, locs,
                 received, ordered>>

\* faulty variant: no variate is drawn for an item that has nothing on hand
DemandDrawingOnStock ==
  /\ pc = "demand"
  /\ LET stocked == sumQty(state.inventory, item.sku, "fresh")
                      + sumQty(state.inventory, item.sku, "frozen") > 0
         d == demandForDay(item, loc.priceMultiplier, rng,
                           IF stocked THEN config.demandNoiseStdDev ELSE 0)
     IN  /\ rng' = IF stocked THEN d.t ELSE rng
         /\ draws' = IF stocked THEN draws + 2 ELSE draws
         /\ loc' = [loc EXCEPT !.priceEffect = d.priceEffect,
                               !.noise = d.noise,
                               !.demand = [n |-> d.n, d |-> d.d],
                               !.demandInt = Max(0, Floor(d.n, d.d))]
  /\ stageOpen' = state
  /\ trail' = Append(trail, Stage("demand", k, state.inventory))
  /\ pc' = "sell"
  /\ UNCHANGED <<inputVars, initialState, call, state, shared, day, k, perSku,
                 days, totals, result, first, thrown, dayOpen, locs, received, ordered>>

\* lines 245-251
Demand ==
  /\ pc = "demand"
  /\ LET d == demandForDay(item, loc.priceMultiplier, rng, config.demandNoiseStdDev)
     IN  /\ rng' = d.t
         /\ loc' = [loc EXCEPT !.priceEffect = d.priceEffect,
                               !.noise = d.noise,
                               !.demand = [n |-> d.n, d |-> d.d],
                               !.demandInt = Max(0, Floor(d.n, d.d))]
  /\ draws' = draws + 2
  /\ stageOpen' = state
  /\ trail' = Append(trail, Stage("demand", k, state.inventory))
  /\ pc' = "sell"
  /\ UNCHANGED <<inputVars, initialState, call, state, shared, day, k, perSku,
                 days, totals, result, first, thrown, dayOpen, locs, received, ordered>>

\* faulty variant: unmet demand is recorded as stockout whatever the
\* configuration says
SellCountingStockouts ==
  /\ pc = "sell"
  /\ LET r == SellStage(state.inventory, item, loc.demandInt)
     IN  /\ SetInventory(r.batches)
         /\ loc' = [loc EXCEPT !.soldFresh = r.soldFresh,
                               !.soldFrozen = r.soldFrozen,
                               !.unmet = r.unmet,
                               !.stockout = r.unmet]
  /\ stageOpen' = state
  /\ trail' = Append(trail, Stage("sell", k, state'.inventory))
  /\ pc' = "shrink"
  /\ UNCHANGED <<inputVars, call, shared, rng, draws, day, k, perSku, days,
                 totals, result, first, thrown, dayOpen, locs, received, ordered>>

\* lines 253-260
Sell ==
  /\ pc = "sell"
  /\ LET r == SellStage(state.inventory, item, loc.demandInt)
     IN  /\ SetInventory(r.batches)
         /\ loc' = [loc EXCEPT !.soldFresh = r.soldFresh,
                               !.soldFrozen = r.soldFrozen,
                               !.unmet = r.unmet,
                               !.stockout = IF config.countStockouts THEN r.unmet ELSE 0]
  /\ stageOpen' = state
  /\ trail' = Append(trail, Stage("sell", k, state'.inventory))
  /\ pc' = "shrink"
  /\ UNCHANGED <<inputVars, call, shared, rng, draws, day, k, perSku, days,
                 totals, result, first, thrown, dayOpen, locs, received, ordered>>

\* lines 262-275: shrink, then the holding cost on what is left
Shrink ==
  /\ pc = "shrink"
  /\ LET r == ShrinkStage(state.inventory, item)
         endingFresh == sumQty(r.batches, item.sku, "fresh")
         endingFrozen == sumQty(r.batches, item.sku, "frozen")
     IN  /\ SetInventory(r.batches)
         /\ loc' = [loc EXCEPT
                      !.shrinkLost = r.shrinkLost,
                      !.lostFresh = r.lostFresh,
                      !.lostFrozen = r.lostFrozen,
                      !.endingFresh = endingFresh,
                      !.endingFrozen = endingFrozen,
                      !.holdingCost = (endingFresh + endingFrozen)
                                        * config.holdingCostPerUnitPerDay * Scale]
  /\ stageOpen' = state
  /\ trail' = Append(trail, Stage("shrink", k, state'.inventory))
  /\ pc' = "age"
  /\ UNCHANGED <<inputVars, call, shared, rng, draws, day, k, perSku, days,
                 totals, result, first, thrown, dayOpen, locs, received, ordered>>

\* lines 277-290
Age ==
  /\ pc = "age"
  /\ LET r == AgeStage(state.inventory, item.sku)
     IN  /\ SetInventory(r.batches)
         /\ loc' = [loc EXCEPT !.wasted = r.wasted,
                               !.wastedFresh = r.wastedFresh,
                               !.wastedFrozen = r.wastedFrozen]
  /\ stageOpen' = state
  /\ trail' = Append(trail, Stage("age", k, state'.inventory))
  /\ pc' = "reorder"
  /\ UNCHANGED <<inputVars, call, shared, rng, draws, day, k, perSku, days,
                 totals, result, first, thrown, dayOpen, locs, received, ordered>>

\* lines 292-304
Reorder ==
  /\ pc = "reorder"
  /\ LET freshOnHandNow == sumQty(state.inventory, item.sku, "fresh")
         new == ReorderStage(freshOnHandNow, item, p)
     IN  /\ SetState([state EXCEPT !.pendingDeliveries = @ \o new])
         /\ loc' = [loc EXCEPT !.freshOnHandNow = freshOnHandNow,
                               !.enqueued = Len(new),
                               !.need = IF new = <<>> THEN 0 ELSE new[1].qty]
         /\ ordered' = ordered \o
              [i \in 1..Len(new) |->
                 [sku |-> new[i].sku, qty |-> new[i].qty, day |-> day,
                  leadTimeDays |-> item.leadTimeDays]]
  /\ stageOpen' = state
  /\ trail' = Append(trail, Stage("reorder", k, state'.inventory))
  /\ pc' = "rollup"
  /\ UNCHANGED <<inputVars, call, shared, rng, draws, day, k, perSku, days,
                 totals, result, first, thrown, dayOpen, locs, received>>

\* the DaySkuMetrics entry of lines 306-330; money in units of 1/Scale^2
Metrics(itm, conf, l) ==
  [sku |-> itm.sku,
   startingFresh |-> l.startingFresh,
   startingFrozen |-> l.startingFrozen,
   price |-> l.price,
   priceMultiplier |-> l.priceMultiplier,
   demand |-> l.demandInt,
   soldFresh |-> l.soldFresh,
   soldFrozen |-> l.soldFrozen,
   stockout |-> l.stockout,
   donated |-> l.donated,
   frozenMoved |-> l.frozenMoved,
   wasted |-> l.wasted,
   shrinkLost |-> l.shrinkLost,
   revenue |-> l.soldFresh * l.price
                 + l.soldFrozen * (itm.basePrice * itm.frozenPriceMultiplier),
   cogs |-> (l.soldFresh + l.soldFrozen) * itm.unitCost * Scale,
   holdingCost |-> l.holdingCost,
   wasteCost |-> l.wasted * conf.wasteDisposalCostPerUnit * Scale,
   freezeCost |-> l.frozenMoved * itm.freezeCostPerUnit * Scale]

\* faulty variant: frozen sales are left out of totals.sold
AddTotalsFreshOnly(t, m) ==
  [t EXCEPT !.revenue = @ + m.revenue,
            !.cogs = @ + m.cogs,
            !.holdingCost = @ + m.holdingCost,
            !.wasteCost = @ + m.wasteCost,
            !.freezeCost = @ + m.freezeCost,
            !.demand = @ + m.demand,
            !.sold = @ + m.soldFresh,
            !.stockout = @ + m.stockout,
            !.wasted = @ + m.wasted,
            !.donated = @ + m.donated]

\* lines 332-342
AddTotals(t, m) ==
  [t EXCEPT !.revenue = @ + m.revenue,
            !.cogs = @ + m.cogs,
            !.holdingCost = @ + m.holdingCost,
            !.wasteCost = @ + m.wasteCost,
            !.freezeCost = @ + m.freezeCost,
            !.demand = @ + m.demand,
            !.sold = @ + m.soldFresh + m.soldFrozen,
            !.stockout = @ + m.stockout,
            !.wasted = @ + m.wasted,
            !.donated = @ + m.donated]

\* lines 306-343: the financial rollup and the end of the SKU's iteration
Rollup ==
  /\ pc = "rollup"
  /\ LET m == Metrics(item, config, loc)
     IN  /\ perSku' = Append(perSku, m)
         /\ totals' = AddTotals(totals, m)
  /\ k' = k + 1
  /\ pc' = "sku"
  /\ locs' = Append(locs, loc)
  /\ UNCHANGED <<inputVars, initialState, call, state, shared, rng, draws, day,
                 loc, days, result, first, thrown, dayOpen, stageOpen,
                 received, ordered, trail>>

\* faulty variant: the day counter advances by two
EndDaySkipping ==
  /\ pc = "sku"
  /\ k > Len(items)
  /\ days' = Append(days, [day |-> day, perSku |-> perSku])
  /\ SetState([state EXCEPT !.day = @ + 2])
  /\ day' = day + 2
  /\ pc' = "day"
  /\ UNCHANGED <<inputVars, call, shared, rng, draws, k, loc, perSku, totals,
                 result, first, thrown, histVars>>

\* lines 345-346: the day's record, the day counter
EndDay ==
  /\ pc = "sku"
  /\ k > Len(items)
  /\ days' = Append(days, [day |-> day, perSku |-> perSku])
  /\ SetState([state EXCEPT !.day = @ + 1])
  /\ day' = day + 1
  /\ pc' = "day"
  /\ UNCHANGED <<inputVars, call, shared, rng, draws, k, loc, perSku, totals,
                 result, first, thrown, histVars>>

\* lines 349-357
Profit(t) == t.revenue - t.cogs - t.holdingCost - t.wasteCost - t.freezeCost

Finish ==
  /\ pc = "day"
  /\ day >= config.days
  /\ totals' = [totals EXCEPT !.profit = Profit(totals)]
  /\ result' = [days |-> days, totals |-> totals']
  /\ pc' = "returned"
  /\ UNCHANGED <<inputVars, initialState, call, state, shared, rng, draws, day,
                 k, loc, perSku, days, first, thrown, histVars>>

\* the caller calls again with the same arguments
CallAgain ==
  /\ pc = "returned"
  /\ call = 1
  /\ first' = result
  /\ call' = 2
  /\ pc' = "call"
  /\ UNCHANGED <<inputVars, initialState, state, shared, rng, draws, day, k,
                 loc, perSku, days, totals, result, thrown, histVars>>

Next ==
  \/ Start
  \/ Receive
  \/ Freeze
  \/ Donate
  \/ Pricing
  \/ Demand
  \/ Sell
  \/ Shrink
  \/ Age
  \/ Reorder
  \/ Rollup
  \/ EndDay
  \/ Finish
  \/ CallAgain

Spec == Init /\ [][Next]_vars

Positions ==
  {"call", "day", "sku", "donate", "price", "demand", "sell", "shrink", "age",
   "reorder", "rollup", "returned", "thrown"}

\* the caller's last call has returned or thrown
Done == pc = "thrown" \/ (pc = "returned" /\ call = 2)

\* a step of a run: every action of Next moves pc
Advance == ~Done /\ pc' \in Positions /\ pc' # pc

\* simulateInventory is synchronous: a run that has not ended takes its next
\* step
FairSpec == Spec /\ WF_pc(Advance)

----------------------------------------------------------------------------
(* Two runs of simulateInventory on the same argument objects, their steps   *)
(* interleaved.  The caller first runs the call alone (call 1), then starts  *)
(* calls 2 and 3 together; at any moment one of the two is running (its      *)
(* locals are the variables) and the other is suspended (its locals are in   *)
(* `other`).  The arguments are the same objects for all three.              *)

\* everything a run of simulateInventory holds in its own frame and closure
Locals ==
  [call |-> call, pc |-> pc, state |-> state, shared |-> shared, rng |-> rng,
   draws |-> draws, day |-> day, k |-> k, loc |-> loc, perSku |-> perSku,
   days |-> days, totals |-> totals, result |-> result, thrown |-> thrown,
   dayOpen |-> dayOpen, stageOpen |-> stageOpen, locs |-> locs,
   received |-> received, ordered |-> ordered, trail |-> trail]

\* the frame of a call that has not run its first statement
NewCall(n) ==
  [call |-> n, pc |-> "call", state |-> NoState, shared |-> FALSE,
   rng |-> <<0, 0>>, draws |-> 0, day |-> 0, k |-> 1, loc |-> ZeroLoc,
   perSku |-> <<>>, days |-> <<>>, totals |-> ZeroTotals, result |-> NoResult,
   thrown |-> <<>>, dayOpen |-> <<>>, stageOpen |-> NoState, locs |-> <<>>,
   received |-> <<>>, ordered |-> <<>>, trail |-> <<>>]

PairInputs ==
  {Input(<<ItemA, ItemB>>, PolicyOf({"A", "B"}, ip), Config(2, 42, nl, TRUE), st) :
     ip \in {PolMarkdown, PolLevel}, nl \in NoiseLevels,
     st \in {<<>>, <<StateMid(<<ItemA, ItemB>>)>>}}

InitPair ==
  /\ \E in \in PairInputs :
       /\ items = in.items
       /\ policy = in.policy
       /\ config = in.config
       /\ initialState = in.initialState
  /\ call = 1
  /\ pc = "call"
  /\ state = NoState
  /\ shared = FALSE
  /\ rng = <<0, 0>>
  /\ draws = 0
  /\ day = 0
  /\ k = 1
  /\ loc = ZeroLoc
  /\ perSku = <<>>
  /\ days = <<>>
  /\ totals = ZeroTotals
  /\ result = NoResult
  /\ first = NoResult
  /\ thrown = <<>>
  /\ dayOpen = <<>>
  /\ stageOpen = NoState
  /\ locs = <<>>
  /\ received = <<>>
  /\ ordered = <<>>
  /\ trail = <<>>
  /\ other = <<>>
  /\ search = NoSearch
  /\ args = <<>>
  /\ ret = <<>>
  /\ sim = [config |-> [days |-> 0], totals |-> ZeroTotals]
  /\ cfg = EvalCfg([profit |-> 0, wasteReduction |-> 0, satisfaction |-> 0,
                    humanitarian |-> 0], 0, Zero)
  /\ evaluation = <<>>

\* the call made alone has returned: the caller starts two calls together
Fork ==
  /\ pc = "returned"
  /\ call = 1
  /\ other = <<>>
  /\ first' = result
  /\ call' = 2
  /\ pc' = "call"
  /\ other' = <<NewCall(3)>>
  /\ UNCHANGED <<items, policy, config, initialState, evalVars, unitVars, search,
                 state, shared, rng, draws, day, k, loc, perSku, days, totals,
                 result, thrown, histVars>>

\* faulty variant: one generator serves both calls
SwitchSharedGenerator ==
  /\ other # <<>>
  /\ other' = <<Locals>>
  /\ call' = other[1].call
  /\ pc' = other[1].pc
  /\ state' = other[1].state
  /\ shared' = other[1].shared
  /\ day' = other[1].day
  /\ k' = other[1].k
  /\ loc' = other[1].loc
  /\ perSku' = other[1].perSku
  /\ days' = other[1].days
  /\ totals' = other[1].totals
  /\ result' = other[1].result
  /\ thrown' = other[1].thrown
  /\ dayOpen' = other[1].dayOpen
  /\ stageOpen' = other[1].stageOpen
  /\ locs' = other[1].locs
  /\ received' = other[1].received
  /\ ordered' = other[1].ordered
  /\ trail' = other[1].trail
  /\ UNCHANGED <<items, policy, config, initialState, first, evalVars, unitVars, search,
                 rng, draws>>

\* the running call is suspended between two of its steps, the other resumes
Switch ==
  /\ other # <<>>
  /\ other' = <<Locals>>
  /\ call' = other[1].call
  /\ pc' = other[1].pc
  /\ state' = other[1].state
  /\ shared' = other[1].shared
  /\ rng' = other[1].rng
  /\ draws' = other[1].draws
  /\ day' = other[1].day
  /\ k' = other[1].k
  /\ loc' = other[1].loc
  /\ perSku' = other[1].perSku
  /\ days' = other[1].days
  /\ totals' = other[1].totals
  /\ result' = other[1].result
  /\ thrown' = other[1].thrown
  /\ dayOpen' = other[1].dayOpen
  /\ stageOpen' = other[1].stageOpen
  /\ locs' = other[1].locs
  /\ received' = other[1].received
  /\ ordered' = other[1].ordered
  /\ trail' = other[1].trail
  /\ UNCHANGED <<items, policy, config, initialState, first, evalVars, unitVars,
                 search>>

NextPair ==
  \/ Start
  \/ Receive
  \/ Freeze
  \/ Donate
  \/ Pricing
  \/ Demand
  \/ Sell
  \/ Shrink
  \/ Age
  \/ Reorder
  \/ Rollup
  \/ EndDay
  \/ Finish
  \/ Fork
  \/ Switch

SpecPair == InitPair /\ [][NextPair]_vars

----------------------------------------------------------------------------
(* evaluateSimulation applied to totals and configurations of its own *)

simVars ==
  <<items, policy, config, initialState, call, pc, state, shared, rng, draws,
    day, k, loc, perSku, days, totals, result, first, thrown, histVars>>

InitEval ==
  /\ items = <<>>
  /\ policy = PolicyOf({}, PolPlain)
  /\ config = Config(0, 0, 0, FALSE)
  /\ initialState = <<>>
  /\ call = 1
  /\ pc = "evaluate"
  /\ state = NoState
  /\ shared = FALSE
  /\ rng = <<0, 0>>
  /\ draws = 0
  /\ day = 0
  /\ k = 1
  /\ loc = ZeroLoc
  /\ perSku = <<>>
  /\ days = <<>>
  /\ totals = ZeroTotals
  /\ result = NoResult
  /\ first = NoResult
  /\ thrown = <<>>
  /\ dayOpen = <<>>
  /\ stageOpen = NoState
  /\ locs = <<>>
  /\ received = <<>>
  /\ ordered = <<>>
  /\ trail = <<>>
  /\ other = <<>>
  /\ search = NoSearch
  /\ args = <<>>
  /\ ret = <<>>
  /\ sim \in EvalSims
  /\ cfg \in EvalConfigs
  /\ evaluation = <<>>

Evaluate ==
  /\ pc = "evaluate"
  /\ evaluation' = <<evaluateSimulation(sim, cfg)>>
  /\ pc' = "evaluated"
  /\ UNCHANGED <<items, policy, config, initialState, call, state, shared, rng,
                 draws, day, k, loc, perSku, days, totals, result, first,
                 thrown, histVars, other, search, unitVars, sim, cfg>>

NextEval == Evaluate

SpecEval == InitEval /\ [][NextEval]_vars

----------------------------------------------------------------------------
(* takeFromBatches applied to ledgers and amounts of its own *)

MaxQty == 3
MaxLedger == 2

TakeBatches ==
  {Batch("A", q, d, st) : q \in 1..MaxQty, d \in 1..2, st \in {"fresh", "frozen"}}
    \cup {Batch("B", 1, 1, "fresh")}

RECURSIVE LedgersOf(_)
LedgersOf(n) ==
  IF n = 0 THEN {<<>>}
  ELSE LedgersOf(n - 1) \cup
         {Append(l, b) : l \in {m \in LedgersOf(n - 1) : Len(m) = n - 1},
                         b \in TakeBatches}

\* ledgers as the pipeline keeps them (every batch holds units), in any order
TakeLedgers == LedgersOf(MaxLedger) \cup {StateMid(<<ItemA>>).inventory}

TakeAmounts == {0 - 1, 0, 1, 2, MaxQty, 2 * MaxQty + 1}

TakeArgs ==
  {[batches |-> l, sku |-> sk, state |-> st, qtyWanted |-> a] :
     l \in TakeLedgers, sk \in {"A", "B"}, st \in {"fresh", "frozen"},
     a \in TakeAmounts}

\* no run of simulateInventory is under way
Parked ==
  /\ items = <<>>
  /\ policy = PolicyOf({}, PolPlain)
  /\ config = Config(0, 0, 0, FALSE)
  /\ initialState = <<>>
  /\ call = 1
  /\ state = NoState
  /\ shared = FALSE
  /\ day = 0
  /\ k = 1
  /\ loc = ZeroLoc
  /\ perSku = <<>>
  /\ days = <<>>
  /\ totals = ZeroTotals
  /\ result = NoResult
  /\ first = NoResult
  /\ thrown = <<>>
  /\ dayOpen = <<>>
  /\ stageOpen = NoState
  /\ locs = <<>>
  /\ received = <<>>
  /\ ordered = <<>>
  /\ trail = <<>>
  /\ other = <<>>
  /\ search = NoSearch
  /\ sim = [config |-> [days |-> 0], totals |-> ZeroTotals]
  /\ cfg = EvalCfg([profit |-> 0, wasteReduction |-> 0, satisfaction |-> 0,
                    humanitarian |-> 0], 0, Zero)
  /\ evaluation = <<>>

InitTake ==
  /\ Parked
  /\ rng = <<0, 0>>
  /\ draws = 0
  /\ pc = "take"
  /\ args \in TakeArgs
  /\ ret = <<>>

Take ==
  /\ pc = "take"
  /\ ret' = <<takeFromBatches(args.batches, args.sku, args.state, args.qtyWanted)>>
  /\ pc' = "taken"
  /\ UNCHANGED <<items, policy, config, initialState, call, state, shared, rng,
                 draws, day, k, loc, perSku, days, totals, result, first,
                 thrown, histVars, other, search, args, evalVars>>

NextTake == Take

SpecTake == InitTake /\ [][NextTake]_vars

----------------------------------------------------------------------------
(* normalizePositive and normalizeLowerIsBetter applied to two values, the   *)
(* second not below the first, and one target                                *)

NormValues == {Rat(n, 10) : n \in (0 - 2)..10}
NormTargets == {Rat(0 - 1, 1), Zero, Rat(1, 10), Rat(1, 2), One, Rat(3, 1)}
NormArgs ==
  {a \in [value : NormValues, higher : NormValues, target : NormTargets] :
     RatLeq(a.value, a.higher)}

InitNorm ==
  /\ Parked
  /\ rng = <<0, 0>>
  /\ draws = 0
  /\ pc = "normalize"
  /\ args \in NormArgs
  /\ ret = <<>>

Normalize ==
  /\ pc = "normalize"
  /\ ret' = <<[positive |-> normalizePositive(args.value, args.target),
               lower |-> normalizeLowerIsBetter(args.value, args.target),
               positiveHigher |-> normalizePositive(args.higher, args.target),
               lowerHigher |-> normalizeLowerIsBetter(args.higher, args.target)]>>
  /\ pc' = "normalized"
  /\ UNCHANGED <<items, policy, config, initialState, call, state, shared, rng,
                 draws, day, k, loc, perSku, days, totals, result, first,
                 thrown, histVars, other, search, args, evalVars>>

NextNorm == Normalize

SpecNorm == InitNorm /\ [][NextNorm]_vars

----------------------------------------------------------------------------
(* Rng.int applied to bounds of its own.  A double is a whole number n small *)
(* enough to be exact ("fin"), Number.MAX_VALUE with a sign ("huge"), some    *)
(* finite whole number of that order ("part", with its sign), an infinity     *)
(* ("inf", with its sign) or NaN.  Adding a "fin" to a "huge" or a "part"     *)
(* leaves it as it is; the sum of two "huge" of one sign is that infinity.    *)

Dbl(kind, n) == [k |-> kind, n |-> n]
IsFinite(x) == x.k \in {"fin", "huge", "part"}

\* the rank of a double in the order of the reals, for doubles of different
\* kinds or of the kind "fin"
Rank(x) ==
  CASE x.k = "fin" -> 0
    [] x.k = "part" -> x.n
    [] x.k = "huge" -> 2 * x.n
    [] OTHER -> 3 * x.n

\* a < b; false when either is NaN
Less(a, b) ==
  /\ a.k # "nan"
  /\ b.k # "nan"
  /\ IF a.k = "fin" /\ b.k = "fin" THEN a.n < b.n ELSE Rank(a) < Rank(b)

\* a - b for finite a and b
Minus(a, b) ==
  CASE a.k = "fin" /\ b.k = "fin" -> Dbl("fin", a.n - b.n)
    [] a.k = "huge" /\ b.k = "fin" -> a
    [] a.k = "fin" /\ b.k = "huge" -> Dbl("huge", 0 - b.n)
    [] a.k = "huge" /\ b.k = "huge" ->
         IF a.n = b.n THEN Dbl("fin", 0) ELSE Dbl("inf", a.n)

\* x + 1
PlusOne(x) == IF x.k = "fin" THEN Dbl("fin", x.n + 1) ELSE x

\* Math.floor(r * span) for the draw r = <<hi16, lo16>> / 2^32 and span > 0
FloorOfProduct(r, span) ==
  CASE span.k = "fin" ->
         Dbl("fin", (r[1] * span.n + ((r[2] * span.n) \div Half)) \div Half)
    [] span.k = "huge" ->
         IF r = <<0, 0>> THEN Dbl("fin", 0) ELSE Dbl("part", 1)
    [] OTHER ->
         IF r = <<0, 0>> THEN Dbl("nan", 0) ELSE span

\* min + f for a finite min and f >= 0 below max - min + 1
PlusOffset(min, f) ==
  CASE f.k \in {"inf", "nan"} -> f
    [] min.k = "fin" /\ f.k = "fin" -> Dbl("fin", min.n + f.n)
    [] min.k = "fin" /\ f.k = "part" -> f
    [] min.k = "huge" /\ f.k = "fin" -> min
    [] OTHER -> Dbl("part", min.n)

NoError == ""
BoundsNotFinite == "Rng.int bounds must be finite numbers"
MaxBelowMin == "Rng.int max must be >= min"

\* faulty variant: the draw is made before the bounds are looked at
IntDrawsFirst(t, minInclusive, maxInclusive) ==
  LET d == next(t)
  IN  IF ~IsFinite(minInclusive) \/ ~IsFinite(maxInclusive)
      THEN [t |-> d.t, err |-> BoundsNotFinite, v |-> Dbl("nan", 0)]
      ELSE IF Less(maxInclusive, minInclusive)
      THEN [t |-> d.t, err |-> MaxBelowMin, v |-> Dbl("nan", 0)]
      ELSE LET span == PlusOne(Minus(maxInclusive, minInclusive))
           IN  [t |-> d.t, err |-> NoError,
                v |-> PlusOffset(minInclusive, FloorOfProduct(d.r, span))]

\* int(minInclusive, maxInclusive): the generator state afterwards, the error
\* thrown (if any) and the value returned
int(t, minInclusive, maxInclusive) ==
  IF ~IsFinite(minInclusive) \/ ~IsFinite(maxInclusive)
  THEN [t |-> t, err |-> BoundsNotFinite, v |-> Dbl("nan", 0)]
  ELSE IF Less(maxInclusive, minInclusive)
  THEN [t |-> t, err |-> MaxBelowMin, v |-> Dbl("nan", 0)]
  ELSE LET d == next(t)
           span == PlusOne(Minus(maxInclusive, minInclusive))
       IN  [t |-> d.t, err |-> NoError,
            v |-> PlusOffset(minInclusive, FloorOfProduct(d.r, span))]

MaxDraws == 3
MaxBound == 5

IntBounds ==
  {Dbl("fin", n) : n \in {0 - MaxBound, 0 - 1, 0, 2, MaxBound}}
    \cup {Dbl("huge", 0 - 1), Dbl("huge", 1)}
    \cup {Dbl("inf", 0 - 1), Dbl("inf", 1), Dbl("nan", 0)}

InitInt ==
  /\ Parked
  /\ rng \in {createRng(sd) : sd \in Seeds}
  /\ draws = 0
  /\ pc = "int"
  /\ args \in [min : IntBounds, max : IntBounds]
  /\ ret = <<>>

\* one call of int on the generator as the calls before have left it
CallInt ==
  /\ pc = "int"
  /\ Len(ret) < MaxDraws
  /\ LET r == int(rng, args.min, args.max)
     IN  /\ rng' = r.t
         /\ draws' = IF r.t = rng THEN draws ELSE draws + 1
         /\ ret' = Append(ret, [before |-> rng, err |-> r.err, v |-> r.v])
  /\ UNCHANGED <<items, policy, config, initialState, call, pc, state, shared,
                 day, k, loc, perSku, days, totals, result, first, thrown,
                 histVars, other, search, args, evalVars>>

NextInt == CallInt

SpecInt == InitInt /\ [][NextInt]_vars

----------------------------------------------------------------------------
(* optimizePolicy: the search loop.  It scores the baseline policy, then     *)
(* asks the agent for candidates and scores each one; evalPolicy calls       *)
(* simulateInventory and hands the result to evaluateSimulation.  While a    *)
(* simulation runs, the loop's frame is in `search`.                         *)

MaxIterations == 2
MaxCandidates == 2

\* policyHasAllSkus
policyHasAllSkus(pol, its) == \A i \in 1..Len(its) : HasMember(pol, its[i].sku)

\* lines 394-407, for one item: no freezing of what cannot be frozen, the
\* order-up-to level not below the reorder point, whole quantities
NormaliseItemPolicy(it, ip) ==
  LET frz == IF it.canFreeze THEN ip
             ELSE [ip EXCEPT !.freezeMaxUnitsPerDay = 0,
                             !.freezeDaysToExpireAtMost = 0]
      upTo == IF frz.orderUpTo < frz.reorderPoint THEN frz.reorderPoint
              ELSE frz.orderUpTo
  IN  [frz EXCEPT !.reorderPoint = Max(0, Round(@, Scale)) * Scale,
                  !.orderUpTo = Max(0, Round(upTo, Scale)) * Scale,
                  !.freezeMaxUnitsPerDay = Max(0, Round(@, Scale)) * Scale]

RECURSIVE NormalisePolicy(_, _)
NormalisePolicy(its, pol) ==
  IF its = <<>> THEN pol
  ELSE LET sku == Head(its).sku
       IN  NormalisePolicy(
             Tail(its),
             IF sku \in DOMAIN pol.perSku
             THEN [pol EXCEPT !.perSku[sku] = NormaliseItemPolicy(Head(its), @)]
             ELSE pol)

\* what the agent's text parses to: nothing (parsePolicyJson throws), or a
\* policy that covers the SKUs of `covered`
NoJson == [json |-> FALSE, policy |-> PolicyOf({}, PolPlain)]
Reply(covered, ip) == [json |-> TRUE, policy |-> PolicyOf(covered, ip)]

AgentReplies(its) ==
  {NoJson, Reply(Skus(its) \ {its[1].sku}, PolMarkdown)}
    \cup {Reply(Skus(its), ip) : ip \in {PolMarkdown, PolInverted}}

\* const seedOffset = iter * 1000 + c * seedBumpPerCandidate
seedOffset(iter, c, seedBumpPerCandidate) == iter * 1000 + c * seedBumpPerCandidate

\* a > b on doubles: false when either is NaN
Greater(a, b) == a.k # "nan" /\ b.k # "nan" /\ RatLess(b, a)

\* the datasets searched: one or two items, two days of noisy demand
SearchEvalConfig ==
  EvalCfg([profit |-> 1, wasteReduction |-> 1, satisfaction |-> 1,
           humanitarian |-> 1], 3 * Scale2, Rat(1, 10))
Datasets ==
  {[items |-> its, simConfig |-> Config(2, 42, Scale, TRUE),
    evalConfig |-> SearchEvalConfig] : its \in {<<ItemA>>, <<ItemA, ItemB>>}}

\* the loop variables of the candidate after (iter, c); the baseline is (0, 0)
NextIndex ==
  IF search.iter = 0 THEN [iter |-> 1, c |-> 1]
  ELSE IF search.c < search.candidatesPerIteration
       THEN [iter |-> search.iter, c |-> search.c + 1]
       ELSE [iter |-> search.iter + 1, c |-> 1]

\* lines 293-322: execute has read its input and built the baseline;
\* evalPolicy(bestPolicy, 0) is about to call simulateInventory
InitOpt ==
  /\ \E d \in Datasets, n \in 1..MaxIterations, m \in 1..MaxCandidates,
        b \in {0, 11} :
       /\ items = d.items
       /\ config = [d.simConfig EXCEPT !.seed = @ + 0]
       /\ cfg = d.evalConfig
       /\ search = [simConfig |-> d.simConfig, iterations |-> n,
                    candidatesPerIteration |-> m, seedBumpPerCandidate |-> b,
                    iter |-> 0, c |-> 0,
                    bestPolicy |-> buildBaselinePolicy(d.items),
                    bestEvaluation |-> <<>>,
                    \* history: the seed of the run that bestEvaluation scores
                    scoredWith |-> <<>>,
                    history |-> <<>>]
  /\ policy = buildBaselinePolicy(items)
  /\ initialState = <<>>
  /\ call = 1
  /\ pc = "call"
  /\ state = NoState
  /\ shared = FALSE
  /\ rng = <<0, 0>>
  /\ draws = 0
  /\ day = 0
  /\ k = 1
  /\ loc = ZeroLoc
  /\ perSku = <<>>
  /\ days = <<>>
  /\ totals = ZeroTotals
  /\ result = NoResult
  /\ first = NoResult
  /\ thrown = <<>>
  /\ dayOpen = <<>>
  /\ stageOpen = NoState
  /\ locs = <<>>
  /\ received = <<>>
  /\ ordered = <<>>
  /\ trail = <<>>
  /\ other = <<>>
  /\ args = <<>>
  /\ ret = <<>>
  /\ sim = [config |-> [days |-> 0], totals |-> ZeroTotals]
  /\ evaluation = <<>>

runVars ==
  <<initialState, call, state, shared, rng, draws, day, k, loc, perSku, days,
    totals, result, first, thrown, histVars>>

\* lines 318, 322-330 and 409-421: simulateInventory has returned; evalPolicy
\* evaluates the result, the loop records it and keeps the better policy
Score ==
  /\ pc = "returned"
  /\ LET sm == [config |-> config, totals |-> result.totals]
         e == evaluateSimulation(sm, cfg)
         better == \/ search.iter = 0
                   \/ Greater(e.score, search.bestEvaluation[1].score)
     IN  /\ sim' = sm
         /\ evaluation' = <<e>>
         /\ search' =
              [search EXCEPT
                 !.history = Append(@, [iteration |-> search.iter,
                                        candidate |-> search.c,
                                        evaluation |-> e]),
                 !.bestEvaluation = IF better THEN <<e>> ELSE @,
                 !.bestPolicy = IF better THEN policy ELSE @,
                 !.scoredWith = IF better THEN <<config.seed>> ELSE @]
  /\ pc' = "loop"
  /\ UNCHANGED <<items, policy, config, cfg, other, unitVars, runVars>>

\* lines 332-409: the agent's reply parses and covers the catalog; it is
\* normalised and evalPolicy(candidatePolicy, seedOffset) calls
\* simulateInventory
Propose ==
  /\ pc = "loop"
  /\ NextIndex.iter <= search.iterations
  /\ \E reply \in AgentReplies(items) :
       /\ reply.json
       /\ policyHasAllSkus(reply.policy, items)
       /\ policy' = NormalisePolicy(items, reply.policy)
  /\ config' = [search.simConfig EXCEPT
                  !.seed = @ + seedOffset(NextIndex.iter, NextIndex.c,
                                          search.seedBumpPerCandidate)]
  /\ search' = [search EXCEPT !.iter = NextIndex.iter, !.c = NextIndex.c]
  /\ pc' = "call"
  /\ UNCHANGED <<items, evalVars, other, unitVars, runVars>>

\* lines 383-391: the reply does not parse, or lacks a SKU: `continue`
Skip ==
  /\ pc = "loop"
  /\ NextIndex.iter <= search.iterations
  /\ \E reply \in AgentReplies(items) :
       ~reply.json \/ ~policyHasAllSkus(reply.policy, items)
  /\ search' = [search EXCEPT !.iter = NextIndex.iter, !.c = NextIndex.c]
  /\ UNCHANGED <<items, policy, config, pc, evalVars, other, unitVars, runVars>>

\* lines 425-439: the loops are over; the step returns
ReturnBest ==
  /\ pc = "loop"
  /\ NextIndex.iter > search.iterations
  /\ ret' = <<[bestPolicy |-> search.bestPolicy,
               bestEvaluation |-> search.bestEvaluation[1],
               history |-> search.history]>>
  /\ pc' = "done"
  /\ UNCHANGED <<items, policy, config, evalVars, other, args, search, runVars>>

NextOpt ==
  \/ Start
  \/ Receive
  \/ Freeze
  \/ Donate
  \/ Pricing
  \/ Demand
  \/ Sell
  \/ Shrink
  \/ Age
  \/ Reorder
  \/ Rollup
  \/ EndDay
  \/ Finish
  \/ Score
  \/ Propose
  \/ Skip
  \/ ReturnBest

SpecOpt == InitOpt /\ [][NextOpt]_vars

----------------------------------------------------------------------------
(* Properties *)

Returned == pc = "returned"
\* every SKU of the catalog has been through the day's pipeline
AllSkusDone == pc = "sku" /\ k > Len(items)
Pools == {"fresh", "frozen"}

\* the StoreState the run started from
InitialPending ==
  IF initialState = <<>> THEN <<>> ELSE initialState[1].pendingDeliveries

\* C1: determinism.  Two successive calls of simulateInventory with the same
\* items, policy, config (seed included) and initialState return the same
\* per-day/per-SKU trace and the same totals.
C1_Determinism == (call = 2 /\ Returned) => result = first

C1_Witness ==
  /\ call = 2
  /\ Returned
  /\ initialState # <<>>
  /\ config.demandNoiseStdDev > 0
  /\ Len(result.days) >= 2
  /\ result.totals.sold > 0
  /\ result.totals.wasted > 0

\* the catalog SKUs without a policy entry, in catalog order
MissingSkus == SelectSeq([i \in 1..Len(items) |-> items[i].sku],
                         LAMBDA sk : sk \notin DOMAIN policy.perSku)

\* C2: when a catalog SKU has no entry in policy.perSku the call fails with a
\* configuration error naming that SKU (the first one missing) before any day
\* is simulated: no delivery received, no batch changed, no draw made, no
\* partial result.
C2_MissingPolicy ==
  (MissingSkus # <<>> /\ pc # "call") =>
    /\ pc = "thrown"
    /\ thrown = <<"ConfigError", MissingSkus[1]>>
    /\ state = NoState
    /\ initialState \in {<<>>, <<StateMid(items)>>}
    /\ rng = <<0, 0>>
    /\ draws = 0
    /\ received = <<>>
    /\ days = <<>>
    /\ result = NoResult

\* fresh units of the SKU received on day d
RECURSIVE Arrivals(_, _, _)
Arrivals(log, sku, d) ==
  IF log = <<>> THEN 0
  ELSE (IF Head(log).sku = sku /\ Head(log).day = d
        THEN Max(0, Head(log).qty) ELSE 0) + Arrivals(Tail(log), sku, d)

\* what left the SKU's fresh pool, and its frozen pool, during the day
RECURSIVE FreshOut(_, _)
FreshOut(ls, sku) ==
  IF ls = <<>> THEN 0
  ELSE (IF Head(ls).sku = sku
        THEN Head(ls).soldFresh + Head(ls).donated + Head(ls).frozenMoved
               + Head(ls).lostFresh + Head(ls).wastedFresh
        ELSE 0) + FreshOut(Tail(ls), sku)

RECURSIVE FrozenOut(_, _)
FrozenOut(ls, sku) ==
  IF ls = <<>> THEN 0
  ELSE (IF Head(ls).sku = sku
        THEN Head(ls).soldFrozen + Head(ls).lostFrozen + Head(ls).wastedFrozen
        ELSE 0) + FrozenOut(Tail(ls), sku)

RECURSIVE FrozenMoved(_, _)
FrozenMoved(ls, sku) ==
  IF ls = <<>> THEN 0
  ELSE (IF Head(ls).sku = sku THEN Head(ls).frozenMoved ELSE 0)
       + FrozenMoved(Tail(ls), sku)

\* C3: fresh-side conservation, per SKU and day: the fresh on-hand before the
\* day's delivery receipt plus the day's arrivals equals the fresh on-hand at
\* the end of the day's pipeline plus the fresh units sold, donated, frozen,
\* lost to shrink and wasted that day.
C3_FreshConservation ==
  AllSkusDone =>
    \A sk \in Skus(items) :
      sumQty(dayOpen, sk, "fresh") + Arrivals(received, sk, day)
        = sumQty(state.inventory, sk, "fresh") + FreshOut(locs, sk)

C3_Witness ==
  /\ AllSkusDone
  /\ \E i \in 1..Len(locs) :
       /\ Arrivals(received, locs[i].sku, day) > 0
       /\ locs[i].soldFresh > 0
       /\ locs[i].donated > 0
       /\ locs[i].frozenMoved > 0
       /\ locs[i].lostFresh > 0
       /\ sumQty(state.inventory, locs[i].sku, "fresh") > 0

\* C4: frozen-side conservation, per SKU and day: the frozen on-hand at the
\* start of the day plus the units frozen that day equals the frozen on-hand
\* at the end of the day's pipeline plus the frozen units sold, lost to shrink
\* and wasted that day.
C4_FrozenConservation ==
  AllSkusDone =>
    \A sk \in Skus(items) :
      sumQty(dayOpen, sk, "frozen") + FrozenMoved(locs, sk)
        = sumQty(state.inventory, sk, "frozen") + FrozenOut(locs, sk)

C4_Witness ==
  /\ AllSkusDone
  /\ \E i \in 1..Len(locs) :
       /\ sumQty(dayOpen, locs[i].sku, "frozen") > 0
       /\ locs[i].frozenMoved > 0
       /\ locs[i].soldFrozen > 0
       /\ sumQty(state.inventory, locs[i].sku, "frozen") > 0

\* quantity of the (sku, pool) batches that have d days left
RECURSIVE QtyAt(_, _, _, _)
QtyAt(inv, sku, pool, d) ==
  IF inv = <<>> THEN 0
  ELSE (IF /\ Head(inv).sku = sku
           /\ Head(inv).state = pool
           /\ Head(inv).daysToExpire = d
        THEN Head(inv).qty ELSE 0) + QtyAt(Tail(inv), sku, pool, d)

DaysIn(inv) == {inv[i].daysToExpire : i \in 1..Len(inv)}

\* the stage that ran last was the freeze, the donation, the sale or the shrink
AfterTakingStage == pc \in {"donate", "price", "shrink", "age"}

\* C5: FIFO.  When the freeze, the donation, the sale or the shrink removes
\* units from batches of a (sku, state), every batch of that (sku, state) with
\* strictly fewer days to expiry has been emptied by the same stage.
C5_Fifo ==
  AfterTakingStage =>
    \A pool \in Pools :
      \A d \in DaysIn(stageOpen.inventory) :
        QtyAt(state.inventory, item.sku, pool, d)
            < QtyAt(stageOpen.inventory, item.sku, pool, d)
          => \A e \in DaysIn(stageOpen.inventory) :
               e < d => QtyAt(state.inventory, item.sku, pool, e) = 0

C5_Witness ==
  /\ pc = "shrink"
  /\ \E d, e \in DaysIn(stageOpen.inventory) :
       /\ e < d
       /\ QtyAt(stageOpen.inventory, item.sku, "fresh", e) > 0
       /\ QtyAt(state.inventory, item.sku, "fresh", e) = 0
       /\ QtyAt(state.inventory, item.sku, "fresh", d) > 0
       /\ QtyAt(state.inventory, item.sku, "fresh", d)
            < QtyAt(stageOpen.inventory, item.sku, "fresh", d)

\* the deliveries the ordering decision has just appended to the queue
NewDeliveries ==
  SubSeq(state.pendingDeliveries, Len(stageOpen.pendingDeliveries) + 1,
         Len(state.pendingDeliveries))
FreshNow == sumQty(state.inventory, item.sku, "fresh")
OrderTarget == Max(0, Round(p.orderUpTo, Scale))

\* C6 as stated: a delivery is enqueued exactly when the post-aging fresh
\* on-hand is <= reorderPoint, its quantity is orderUpTo - fresh on-hand, and
\* at most one is enqueued per SKU and day.
C6_AsStated ==
  pc = "rollup" =>
    /\ Len(NewDeliveries) <= 1
    /\ (Len(NewDeliveries) = 1) <=> (FreshNow * Scale <= p.reorderPoint)
    /\ Len(NewDeliveries) = 1 =>
         NewDeliveries[1].qty * Scale = p.orderUpTo - FreshNow * Scale

\* C6, amended: a delivery is enqueued exactly when the post-aging fresh
\* on-hand is <= reorderPoint and below max(0, round(orderUpTo)); its quantity
\* is max(0, round(orderUpTo)) - fresh on-hand; at most one is enqueued per SKU
\* and day, behind the deliveries already queued.
C6_Reorder ==
  pc = "rollup" =>
    /\ Len(NewDeliveries) <= 1
    /\ SubSeq(state.pendingDeliveries, 1, Len(stageOpen.pendingDeliveries))
         = stageOpen.pendingDeliveries
    /\ (Len(NewDeliveries) = 1) <=>
         (FreshNow * Scale <= p.reorderPoint /\ FreshNow < OrderTarget)
    /\ Len(NewDeliveries) = 1 =>
         /\ NewDeliveries[1].sku = item.sku
         /\ NewDeliveries[1].qty = OrderTarget - FreshNow

C6_Witness ==
  /\ pc = "rollup"
  /\ Len(NewDeliveries) = 1
  /\ FreshNow * Scale = p.reorderPoint
  /\ FreshNow > 0
  /\ stageOpen.pendingDeliveries # <<>>

DueOfInitial(d) == Max(0, d.arrivingInDays - 1)
DueOfOrder(o) == o.day + Max(1, o.leadTimeDays)
\* the delivery receipt of day e has run
ReceiptDone(e) == e < day \/ (e = day /\ pc \notin {"call", "day", "returned", "thrown"})
SkuQty(log) == [i \in 1..Len(log) |-> [sku |-> log[i].sku, qty |-> log[i].qty]]

\* C7: a delivery enqueued on day d for a SKU with lead time L is received in
\* the delivery receipt of day d + max(1, L), not earlier, not later and once:
\* the deliveries received on a day are exactly the initially pending ones due
\* that day followed by the orders due that day.
C7_ArrivalDay ==
  \A e \in 0..day :
    ReceiptDone(e) =>
      SkuQty(SelectSeq(received, LAMBDA r : r.day = e))
        = SkuQty(SelectSeq(InitialPending, LAMBDA d : DueOfInitial(d) = e))
            \o SkuQty(SelectSeq(ordered, LAMBDA o : DueOfOrder(o) = e))

C7_Witness ==
  /\ pc = "sku"
  /\ \E i, j \in 1..Len(ordered) :
       /\ ordered[i].leadTimeDays = 2
       /\ DueOfOrder(ordered[i]) = day
       /\ ordered[j].leadTimeDays = 0
       /\ DueOfOrder(ordered[j]) = day
  /\ Len(SelectSeq(received, LAMBDA r : r.day = day)) >= 2

\* C9: with demandNoiseStdDev = 0 the demand realised for a SKU and day is
\* exactly max(0, baseDailyDemand) * priceEffect, whatever the seed, and the
\* recorded demand is its floor.
C9_ZeroNoise ==
  (config.demandNoiseStdDev = 0 /\ pc = "sell") =>
    LET base == Max(0, item.baseDailyDemand)
        pe == PowR(Max(Scale \div 20, loc.priceMultiplier), item.priceElasticity)
    IN  /\ loc.demand.n * pe.d = base * pe.n * loc.demand.d
        /\ loc.demandInt = Floor(base * pe.n, pe.d)

C9_Witness ==
  /\ config.demandNoiseStdDev = 0
  /\ pc = "sell"
  /\ config.seed # 42
  /\ item.priceElasticity < 0
  /\ loc.priceMultiplier < Scale
  /\ loc.demandInt > item.baseDailyDemand

ScenarioA ==
  /\ items = <<ItemS>>
  /\ initialState = <<StateA>>
  /\ config.days = 1
  /\ config.demandNoiseStdDev = 0

\* C10: Scenario A.  One SKU, one day, 100 fresh units with 5 days left,
\* demand 50, no elasticity, no noise, no freeze, donation or shrink: 50 sold
\* fresh, nothing wasted, no stockout, and the ledger ends with one fresh batch
\* of 50 units with 4 days left.
C10_ScenarioA ==
  (ScenarioA /\ Returned) =>
    /\ Len(result.days) = 1
    /\ Len(result.days[1].perSku) = 1
    /\ result.days[1].perSku[1].soldFresh = 50
    /\ result.days[1].perSku[1].wasted = 0
    /\ result.days[1].perSku[1].stockout = 0
    /\ state.inventory = <<Batch("S", 50, 4, "fresh")>>

C10_Witness == ScenarioA /\ Returned /\ call = 1 /\ config.countStockouts

Evaluated == evaluation # <<>>
IsNaN(x) == x.k = "nan"
InUnit(x) == x.k = "fin" /\ RatLeq(Zero, x) /\ RatLeq(x, One)
WeightSum == cfg.weights.profit + cfg.weights.wasteReduction
               + cfg.weights.satisfaction + cfg.weights.humanitarian

\* C8: for finite totals, nonnegative weights and finite targets the overall
\* score and the four sub-scores lie in [0,1] and no returned field is NaN,
\* also with all totals zero and with all weights zero.
C8_ScoreInUnit ==
  Evaluated =>
    LET e == evaluation[1]
    IN  /\ InUnit(e.score)
        /\ InUnit(e.breakdown.profitScore)
        /\ InUnit(e.breakdown.wasteReductionScore)
        /\ InUnit(e.breakdown.satisfactionScore)
        /\ InUnit(e.breakdown.humanitarianScore)
        /\ ~IsNaN(e.raw.profitPerDay)
        /\ ~IsNaN(e.raw.wasteRate)
        /\ ~IsNaN(e.raw.fillRate)
        /\ ~IsNaN(e.raw.donationRate)

\* what does hold: the sub-scores and raw rates are never NaN and the
\* sub-scores lie in [0,1]; the score does whenever the sum of the weights is
\* a finite double
C8_FiniteWeightSum ==
  Evaluated =>
    LET e == evaluation[1]
    IN  /\ InUnit(e.breakdown.profitScore)
        /\ InUnit(e.breakdown.wasteReductionScore)
        /\ InUnit(e.breakdown.satisfactionScore)
        /\ InUnit(e.breakdown.humanitarianScore)
        /\ ~IsNaN(e.raw.profitPerDay)
        /\ ~IsNaN(e.raw.wasteRate)
        /\ ~IsNaN(e.raw.fillRate)
        /\ ~IsNaN(e.raw.donationRate)
        /\ WeightSum <= MaxDouble => InUnit(e.score)

ScenarioB == items = <<ItemT>> /\ policy = PolicyOf({"T"}, PolHold)

\* C11: Scenario B.  A batch of a SKU with shelfLifeDays = 1 that goes through a
\* day without sale, donation, freeze or shrink is wasted whole by that day's
\* aging step: wasted is the batch quantity and the batch has left the ledger.
C11_ScenarioB ==
  (ScenarioB /\ pc = "reorder") =>
    /\ loc.frozenMoved = 0
    /\ loc.donated = 0
    /\ loc.soldFresh = 0
    /\ loc.shrinkLost = 0
    /\ stageOpen.inventory = <<Batch("T", 7, 1, "fresh")>>
    /\ loc.wasted = 7
    /\ state.inventory = <<>>

C11_Witness ==
  /\ ScenarioB
  /\ pc = "reorder"
  /\ day = 1
  /\ loc.wasted = 7

\* the run is between two stages of the pipeline
BetweenStages ==
  pc \in {"sku", "donate", "price", "demand", "sell", "shrink", "age", "reorder",
          "rollup", "day", "returned"}

AllPositive(inv) == \A i \in 1..Len(inv) : inv[i].qty > 0

\* C12: ledger quantity invariant.  Started from a state whose batches all hold
\* more than zero units, the ledger holds only batches of more than zero units
\* after every stage: emptied batches are gone, none is inserted empty.
C12_LedgerPositive ==
  (BetweenStages /\ (initialState # <<>> => AllPositive(initialState[1].inventory)))
    => AllPositive(state.inventory)

StageNames ==
  <<"freeze", "donate", "price", "demand", "sell", "shrink", "age", "reorder">>

\* the trail of a day whose stages have all run, for a catalog of n items
FullTrail(n) ==
  [i \in 1..(1 + 8 * n) |->
     IF i = 1 THEN [stage |-> "receive", k |-> 0]
     ELSE [stage |-> StageNames[((i - 2) % 8) + 1], k |-> ((i - 2) \div 8) + 1]]

TrailSteps == [i \in 1..Len(trail) |-> [stage |-> trail[i].stage, k |-> trail[i].k]]

TraceShape ==
  Returned =>
    /\ Len(result.days) = config.days
    /\ \A d \in 1..Len(result.days) :
         /\ result.days[d].day = d - 1
         /\ Len(result.days[d].perSku) = Len(items)
         /\ \A j \in 1..Len(items) : result.days[d].perSku[j].sku = items[j].sku

\* the day counter moves only by one, once the day's stages have all run
DayOrder ==
  (day' # day /\ pc # "call") =>
    /\ day' = day + 1
    /\ AllSkusDone
    /\ TrailSteps = FullTrail(Len(items))

\* C13: termination and trace shape.  Every call of simulateInventory ends; a
\* run that returns has exactly config.days day records, numbered 0 to
\* config.days - 1, each with one metrics entry per catalog item in catalog
\* order; all stages of a day have run before the next day starts.
C13_Trace ==
  /\ []TraceShape
  /\ [][DayOrder]_vars
  /\ (pc = "call") ~> (pc \in {"returned", "thrown"})

C13_Witness ==
  /\ Returned
  /\ config.days = MaxDays
  /\ Len(items) = 2
  /\ Len(result.days) = MaxDays
  /\ result.days[MaxDays].perSku[2].sku = "B"

OnHandBefore == sumQty(args.batches, args.sku, args.state)

AtAging(j) ==
  LET i == CHOOSE n \in 1..Len(trail) : trail[n].stage = "shrink" /\ trail[n].k = j
  IN  trail[i].inventory

AfterAging(j) ==
  LET i == CHOOSE n \in 1..Len(trail) : trail[n].stage = "age" /\ trail[n].k = j
  IN  trail[i].inventory

OfSku(inv, sku) == SelectSeq(inv, LAMBDA b : b.sku = sku)
NotOfSku(inv, sku) == SelectSeq(inv, LAMBDA b : b.sku # sku)
OneDayOlder(inv) == [i \in 1..Len(inv) |-> [inv[i] EXCEPT !.daysToExpire = @ - 1]]

RECURSIVE TotalQty(_)
TotalQty(inv) == IF inv = <<>> THEN 0 ELSE Head(inv).qty + TotalQty(Tail(inv))

\* C15 as stated: on each day every batch that an aging stage finds in the
\* ledger is decremented exactly once, never zero times (some aging stage of
\* the day is for its SKU) and never twice (a fresh batch of the stage's SKU
\* has not been through an earlier aging stage of that SKU the same day).
C15_AsStated ==
  AllSkusDone =>
    \A j \in 1..Len(items) :
      \A i \in 1..Len(AtAging(j)) :
        LET b == AtAging(j)[i]
        IN  /\ \E j2 \in 1..Len(items) : items[j2].sku = b.sku
            /\ (b.state = "fresh" /\ b.sku = items[j].sku)
                 => \A j1 \in 1..(j - 1) : items[j1].sku # b.sku

\* C15: aging.  The aging stage of a catalog item decrements daysToExpire by
\* exactly one on every batch of that item's SKU and on no other batch, before
\* waste is assessed; the batches of that SKU then at or below zero are removed
\* and their whole quantity is the stage's wasted quantity.
C15_Aging ==
  pc = "reorder" =>
    LET before == stageOpen.inventory
        mine == OfSku(before, item.sku)
    IN  /\ NotOfSku(state.inventory, item.sku) = NotOfSku(before, item.sku)
        /\ OfSku(state.inventory, item.sku) =
             OneDayOlder(SelectSeq(mine, LAMBDA b : b.daysToExpire > 1))
        /\ loc.wasted = TotalQty(SelectSeq(mine, LAMBDA b : b.daysToExpire <= 1))

\* an aging stage that wastes one batch of its SKU, keeps another one day
\* older, and leaves a batch of another SKU as it was
C15_Witness ==
  /\ pc = "reorder"
  /\ loc.wasted > 0
  /\ OfSku(state.inventory, item.sku) # <<>>
  /\ NotOfSku(state.inventory, item.sku) # <<>>

\* every metrics entry of the trace, day after day
RECURSIVE Entries(_)
Entries(ds) == IF ds = <<>> THEN <<>> ELSE Head(ds).perSku \o Entries(Tail(ds))

RECURSIVE SumOf(_, _)
SumOf(es, f) == IF es = <<>> THEN 0 ELSE Head(es)[f] + SumOf(Tail(es), f)

SummedFields ==
  {"revenue", "cogs", "holdingCost", "wasteCost", "freezeCost", "demand",
   "stockout", "wasted", "donated"}

\* C16: the totals of a run are the sums of the per-SKU-per-day metrics of its
\* trace (sold being soldFresh + soldFrozen), and totals.profit is revenue -
\* cogs - holdingCost - wasteCost - freezeCost of those sums.
C16_Totals ==
  Returned =>
    LET es == Entries(result.days)
        t == result.totals
    IN  /\ \A f \in SummedFields : t[f] = SumOf(es, f)
        /\ t.sold = SumOf(es, "soldFresh") + SumOf(es, "soldFrozen")
        /\ t.profit = SumOf(es, "revenue") - SumOf(es, "cogs")
                        - SumOf(es, "holdingCost") - SumOf(es, "wasteCost")
                        - SumOf(es, "freezeCost")

C16_Witness ==
  /\ Returned
  /\ Len(result.days) = MaxDays
  /\ Len(items) = 2
  /\ SumOf(Entries(result.days), "soldFrozen") > 0
  /\ result.totals.wasted > 0
  /\ result.totals.freezeCost > 0
  /\ result.totals.stockout > 0
  /\ result.totals.profit # 0

InvalidBounds ==
  \/ ~IsFinite(args.min)
  \/ ~IsFinite(args.max)
  \/ Less(args.max, args.min)

\* min <= r <= max for a whole number r
InRange(r) ==
  /\ IsFinite(r)
  /\ ~Less(r, args.min)
  /\ ~Less(args.max, r)

LastInt == ret[Len(ret)]

\* C17: Rng.int(min, max) fails with an invalid-argument error when a bound
\* is not finite or max < min, and then leaves the generator as it was; for
\* finite whole bounds with min <= max it returns a whole number r with
\* min <= r <= max.
C17_Int ==
  (pc = "int" /\ ret # <<>>) =>
    IF InvalidBounds
    THEN LastInt.err # NoError /\ rng = LastInt.before /\ draws = 0
    ELSE LastInt.err = NoError /\ InRange(LastInt.v)

\* the same for bounds whose difference max - min is itself a finite double
C17_IntFiniteSpan ==
  (pc = "int" /\ ret # <<>> /\ ~(args.min = Dbl("huge", 0 - 1) /\ args.max = Dbl("huge", 1)))
    => C17_Int

\* C18: independent runs share no mutable state.  With the steps of two runs
\* on the same items, policy, config and initialState objects interleaved in
\* any way, each of the two returns exactly what the call returns when it runs
\* alone.
C18_Independent ==
  /\ (call \in {2, 3} /\ Returned) => result = first
  /\ (other # <<>> /\ other[1].pc = "returned") => other[1].result = first

\* call 3 has run from its first step to its return while call 2 stood in the
\* middle of its second day
C18_Witness ==
  /\ call = 3
  /\ Returned
  /\ result = first
  /\ Len(result.days) = 2
  /\ other # <<>>
  /\ other[1].pc = "sell"
  /\ other[1].day = 1
  /\ initialState # <<>>

\* the ledger the j-th item's stage of that name left
After(name, j) ==
  LET i == CHOOSE n \in 1..Len(trail) : trail[n].stage = name /\ trail[n].k = j
  IN  trail[i].inventory

PerSkuPositions ==
  {"sku", "donate", "price", "demand", "sell", "shrink", "age", "reorder", "rollup"}

\* the deliveries of catalog SKUs received today
ReceivedToday ==
  SelectSeq(received, LAMBDA r : r.day = day /\ r.sku \in Skus(items))

\* C19: pipeline order.  Each day the delivery receipt comes before any
\* per-SKU stage; for each SKU the stages run in the order freeze, donate,
\* price, demand, sell, shrink, age/waste, reorder, items in catalog order.
\* Donation is taken from the batches the freeze left, the price is set on the
\* fresh batches the donation left, shrink is applied to the on-hand quantity
\* the sale left, and the reorder looks at the fresh on-hand the aging left.
C19_PipelineOrder ==
  /\ \A i \in 1..Len(trail) : TrailSteps[i] = FullTrail(Len(items))[i]
  /\ pc \in PerSkuPositions =>
       Len(trail[1].inventory) = Len(dayOpen) + Len(ReceivedToday)
  /\ pc = "rollup" =>
       /\ loc.donated = DonateStage(After("freeze", k), item, p).taken
       /\ loc.minDaysToExpireFresh = MinDaysToExpireFresh(After("donate", k), item)
       /\ loc.shrinkLost =
            Floor((sumQty(After("sell", k), item.sku, "fresh")
                     + sumQty(After("sell", k), item.sku, "frozen"))
                    * clamp01(item.shrinkRate), Scale)
       /\ loc.freshOnHandNow = sumQty(After("age", k), item.sku, "fresh")
       /\ loc.enqueued = Len(ReorderStage(loc.freshOnHandNow, item, p))

\* a SKU iteration, on a day with a receipt, in which donation, sale, shrink
\* and aging each changed the ledger
C19_Witness ==
  /\ pc = "rollup"
  /\ loc.donated > 0
  /\ loc.soldFresh > 0
  /\ After("freeze", k) # After("donate", k)
  /\ After("sell", k) # After("shrink", k)
  /\ After("shrink", k) # After("age", k)
  /\ ReceivedToday # <<>>

\* the receipt has just run
JustReceived == pc = "sku" /\ k = 1

\* the queue the receipt found, every countdown one lower
CountedDown ==
  [i \in 1..Len(stageOpen.pendingDeliveries) |->
     [stageOpen.pendingDeliveries[i] EXCEPT !.arrivingInDays = @ - 1]]

Due == SelectSeq(CountedDown, LAMBDA d : d.arrivingInDays <= 0)
DueInCatalog == SelectSeq(Due, LAMBDA d : d.sku \in Skus(items))

\* what the receipt appended to the ledger
NewBatches == SubSeq(state.inventory, Len(stageOpen.inventory) + 1, Len(state.inventory))

\* the batch a delivery arrives as
FullShelfLife(sku) == FindItem(items, sku)[1].shelfLifeDays
ArrivesAs(d) == Batch(d.sku, Max(0, d.qty), FullShelfLife(d.sku), "fresh")

FreshUpTo(inv, sku, limit) ==
  sumQty(SelectSeq(inv, LAMBDA b : b.daysToExpire <= limit), sku, "fresh")

\* the part of a pool that a threshold leaves out is what it was before the stage
Untouched(pool, limit) ==
  \A d \in DaysIn(stageOpen.inventory) \cup DaysIn(state.inventory) :
    d > limit => QtyAt(state.inventory, item.sku, pool, d)
                   = QtyAt(stageOpen.inventory, item.sku, pool, d)

\* C21: freeze quantity.  For every item and day frozenMoved is
\* min(floor(freezeMaxUnitsPerDay), fresh quantity with daysToExpire <=
\* freezeDaysToExpireAtMost) when the item can be frozen and the cap is > 0, and
\* 0 otherwise; no unit is taken from a fresh batch whose daysToExpire exceeds
\* the freeze threshold.
C21_FreezeQuantity ==
  pc = "donate" =>
    /\ loc.frozenMoved =
         IF item.canFreeze /\ p.freezeMaxUnitsPerDay > 0
         THEN Min(Floor(p.freezeMaxUnitsPerDay, Scale),
                  FreshUpTo(stageOpen.inventory, item.sku, p.freezeDaysToExpireAtMost))
         ELSE 0
    /\ Untouched("fresh", p.freezeDaysToExpireAtMost)

\* the cap binds while a fresh batch above the threshold stays whole
C21_Witness ==
  /\ pc = "donate"
  /\ loc.frozenMoved > 0
  /\ loc.frozenMoved = Floor(p.freezeMaxUnitsPerDay, Scale)
  /\ loc.frozenMoved
       < FreshUpTo(stageOpen.inventory, item.sku, p.freezeDaysToExpireAtMost)
  /\ \E d \in DaysIn(state.inventory) :
       /\ d > p.freezeDaysToExpireAtMost
       /\ QtyAt(state.inventory, item.sku, "fresh", d) > 0

\* how many batches of the ledger are equal to b
Count(inv, b) == Cardinality({i \in 1..Len(inv) : inv[i] = b})

FrozenBatches(inv) == {inv[i] : i \in {j \in 1..Len(inv) : inv[j].state = "frozen"}}

\* the SKUs of the batches of a ledger
LedgerSkus(inv) == {inv[i].sku : i \in 1..Len(inv)}

\* a stage of the per-SKU pipeline has run: stageOpen is the state it started from
AfterStage ==
  pc \in {"donate", "price", "demand", "sell", "shrink", "age", "reorder", "rollup"}

\* C22: freeze is a one-way transfer between disjoint pools.  The freeze stage
\* lowers the SKU's fresh on-hand by frozenMoved and raises its frozen on-hand
\* by exactly frozenMoved; the batches it adds are frozen batches of the SKU
\* with daysToExpire reset to the frozen shelf life; every frozen batch that was
\* in the ledger is still there as it was (not frozen again); and no stage of
\* the pipeline raises a fresh on-hand, nor any stage but the freeze a frozen
\* on-hand (frozen stock never turns fresh).
C22_FreezeTransfer ==
  /\ pc = "donate" =>
       /\ sumQty(state.inventory, item.sku, "fresh")
            = sumQty(stageOpen.inventory, item.sku, "fresh") - loc.frozenMoved
       /\ sumQty(state.inventory, item.sku, "frozen")
            = sumQty(stageOpen.inventory, item.sku, "frozen") + loc.frozenMoved
       /\ \A b \in FrozenBatches(stageOpen.inventory) :
            Count(state.inventory, b) >= Count(stageOpen.inventory, b)
       /\ \A b \in FrozenBatches(state.inventory) :
            Count(state.inventory, b) > Count(stageOpen.inventory, b) =>
              /\ b.sku = item.sku
              /\ b.daysToExpire = item.frozenShelfLifeDays
  /\ AfterStage =>
       \A sk \in Skus(items) \cup LedgerSkus(stageOpen.inventory) :
         /\ sumQty(state.inventory, sk, "fresh")
              <= sumQty(stageOpen.inventory, sk, "fresh")
         /\ pc # "donate" =>
              sumQty(state.inventory, sk, "frozen")
                <= sumQty(stageOpen.inventory, sk, "frozen")

\* units are frozen next to frozen stock that was already there, out of a
\* fresh batch that had another shelf life left than the frozen one
C22_Witness ==
  /\ pc = "donate"
  /\ loc.frozenMoved > 0
  /\ sumQty(stageOpen.inventory, item.sku, "frozen") > 0
  /\ sumQty(state.inventory, item.sku, "fresh") > 0
  /\ \E i \in 1..Len(stageOpen.inventory) :
       /\ stageOpen.inventory[i].sku = item.sku
       /\ stageOpen.inventory[i].state = "fresh"
       /\ stageOpen.inventory[i].daysToExpire <= p.freezeDaysToExpireAtMost
       /\ stageOpen.inventory[i].daysToExpire # item.frozenShelfLifeDays

\* C23: donation.  With a donation fraction > 0, donated is exactly
\* floor(eligible * min(1, fraction)), eligible being the fresh quantity of the
\* SKU with daysToExpire <= donateDaysToExpireAtMost that the freeze left, and
\* every donated unit comes from such a batch; with a fraction <= 0 nothing is
\* donated.  The frozen pool is not touched.
C23_Donation ==
  pc = "price" =>
    LET eligible == FreshUpTo(stageOpen.inventory, item.sku, p.donateDaysToExpireAtMost)
    IN  /\ loc.donated =
             IF p.donateMaxFractionPerDay > 0
             THEN Floor(eligible * Min(Scale, p.donateMaxFractionPerDay), Scale)
             ELSE 0
        /\ FreshUpTo(state.inventory, item.sku, p.donateDaysToExpireAtMost)
             = eligible - loc.donated
        /\ Untouched("fresh", p.donateDaysToExpireAtMost)
        /\ sumQty(state.inventory, item.sku, "frozen")
             = sumQty(stageOpen.inventory, item.sku, "frozen")

\* a part of the eligible units is donated while a fresh batch above the
\* threshold stays whole
C23_Witness ==
  /\ pc = "price"
  /\ loc.donated > 0
  /\ loc.donated < FreshUpTo(stageOpen.inventory, item.sku, p.donateDaysToExpireAtMost)
  /\ \E d \in DaysIn(state.inventory) :
       /\ d > p.donateDaysToExpireAtMost
       /\ QtyAt(state.inventory, item.sku, "fresh", d) > 0

\* the orders in which the rules of a policy can be listed
Orderings(rules) ==
  {[i \in 1..Len(rules) |-> rules[f[i]]] :
     f \in {g \in [1..Len(rules) -> 1..Len(rules)] :
              \A i, j \in 1..Len(rules) : g[i] = g[j] => i = j}}

\* the same rules listed another way, rules of one threshold keeping their order
SameTieOrder(rules, listing) ==
  \A d \in {rules[i].daysToExpireAtMost : i \in 1..Len(rules)} :
    SelectSeq(rules, LAMBDA r : r.daysToExpireAtMost = d)
      = SelectSeq(listing, LAMBDA r : r.daysToExpireAtMost = d)

\* m: the least daysToExpire among the SKU's fresh batches, the full shelf life
\* when it has none
UrgentDays == loc.minDaysToExpireFresh
IsUrgentDays ==
  LET ds == FreshDays(state.inventory, item.sku)
  IN  IF ds = {} THEN UrgentDays = item.shelfLifeDays
      ELSE UrgentDays \in ds /\ \A d \in ds : UrgentDays <= d

\* the rules whose threshold is >= m, and among them those of least threshold
Qualifying == {i \in 1..Len(p.pricing) : p.pricing[i].daysToExpireAtMost >= UrgentDays}
Nearest ==
  {i \in Qualifying :
     \A j \in Qualifying :
       p.pricing[i].daysToExpireAtMost <= p.pricing[j].daysToExpireAtMost}

\* C24 as stated: the multiplier is that of the rule with the smallest threshold
\* among the rules whose threshold is >= m, 1 when there is none; it is the
\* same for every order in which the rules are listed; the price is
\* max(0, basePrice * multiplier).
C24_AsStated ==
  pc = "demand" =>
    /\ IsUrgentDays
    /\ IF Qualifying = {} THEN loc.priceMultiplier = Scale
       ELSE \A i \in Nearest : loc.priceMultiplier = p.pricing[i].priceMultiplier
    /\ \A rules \in Orderings(p.pricing) :
         applyPricing(item, [p EXCEPT !.pricing = rules], UrgentDays).multiplier
           = loc.priceMultiplier
    /\ loc.price = Max(0, item.basePrice * loc.priceMultiplier)

\* C24, amended: the multiplier is that of the rule listed first among the
\* rules of the smallest threshold that is >= m, 1 when no threshold is >= m; it
\* is the same for every listing of the rules that keeps the rules of one
\* threshold in the order they have; the price is max(0, basePrice * multiplier).
C24_Pricing ==
  pc = "demand" =>
    /\ IsUrgentDays
    /\ IF Qualifying = {} THEN loc.priceMultiplier = Scale
       ELSE LET lead == CHOOSE i \in Nearest : \A j \in Nearest : i <= j
            IN  loc.priceMultiplier = p.pricing[lead].priceMultiplier
    /\ \A rules \in Orderings(p.pricing) :
         SameTieOrder(p.pricing, rules) =>
           applyPricing(item, [p EXCEPT !.pricing = rules], UrgentDays).multiplier
             = loc.priceMultiplier
    /\ loc.price = Max(0, item.basePrice * loc.priceMultiplier)

\* two rules of different multipliers share the smallest threshold that is
\* >= m, and they are listed behind a rule of a larger threshold
C24_Witness ==
  /\ pc = "demand"
  /\ \E i, j \in Nearest :
       /\ i < j
       /\ p.pricing[i].priceMultiplier # p.pricing[j].priceMultiplier
       /\ loc.priceMultiplier = p.pricing[i].priceMultiplier
  /\ \E i \in Qualifying \ Nearest : \A j \in Nearest : i < j

\* the SKU's on-hand in a pool before and after the stage that ran last
Before(pool) == sumQty(stageOpen.inventory, item.sku, pool)
Now(pool) == sumQty(state.inventory, item.sku, pool)

\* C25: fulfilment.  For every SKU-day soldFresh = min(demand, fresh on-hand),
\* soldFrozen = min(demand - soldFresh, frozen on-hand) and soldFresh +
\* soldFrozen + unmet = demand; the units sold leave the pool they are sold
\* from; frozen units are sold only if the sale has emptied the SKU's fresh
\* pool, and demand goes unmet only if both pools are empty after the sale.
C25_Fulfilment ==
  pc = "shrink" =>
    /\ loc.soldFresh = Min(loc.demandInt, Before("fresh"))
    /\ loc.soldFrozen = Min(loc.demandInt - loc.soldFresh, Before("frozen"))
    /\ loc.soldFresh + loc.soldFrozen + loc.unmet = loc.demandInt
    /\ Now("fresh") = Before("fresh") - loc.soldFresh
    /\ Now("frozen") = Before("frozen") - loc.soldFrozen
    /\ loc.soldFrozen > 0 => Now("fresh") = 0
    /\ loc.unmet > 0 => Now("fresh") = 0 /\ Now("frozen") = 0

\* demand exceeds the fresh and the frozen stock together
C25_Witness ==
  /\ pc = "shrink"
  /\ loc.soldFresh > 0
  /\ loc.soldFrozen > 0
  /\ loc.unmet > 0

\* the entry and the locals of the SKU iteration that has just been rolled up
RolledUp == pc = "sku" /\ perSku # <<>>
LastEntry == perSku[Len(perSku)]
LastLocals == locs[Len(locs)]

\* the evaluation of the result under a configuration of the evaluator
ResultEvaluation ==
  evaluateSimulation(
    [config |-> config, totals |-> result.totals],
    EvalCfg([profit |-> 1, wasteReduction |-> 1, satisfaction |-> 1,
             humanitarian |-> 1], 3, Rat(1, 10)))
IsOne(x) == x.k = "fin" /\ x.n = x.d

\* C26: stockout recording.  The stockout recorded for a SKU-day is the unmet
\* demand when countStockouts is true and 0 when it is false, and the demand
\* recorded is the whole realised demand, sold or not.  So totals.demand -
\* totals.sold is the demand that went unmet; totals.stockout equals it with
\* countStockouts true and is 0 with countStockouts false, where the
\* evaluator's fillRate is 1 whatever demand went unmet.
C26_Stockout ==
  /\ pc = "shrink" =>
       loc.stockout = IF config.countStockouts THEN loc.unmet ELSE 0
  /\ RolledUp =>
       /\ LastEntry.stockout
            = IF config.countStockouts THEN LastLocals.unmet ELSE 0
       /\ LastEntry.demand
            = LastLocals.soldFresh + LastLocals.soldFrozen + LastLocals.unmet
  /\ totals.stockout
       = IF config.countStockouts THEN totals.demand - totals.sold ELSE 0
  /\ Returned =>
       /\ result.totals.demand = SumOf(Entries(result.days), "demand")
       /\ ~config.countStockouts =>
            /\ result.totals.stockout = 0
            /\ IsOne(ResultEvaluation.raw.fillRate)
       /\ result.totals.stockout > 0 =>
            RatLess(ResultEvaluation.raw.fillRate, One)

\* a run that does not count stockouts has returned with demand unmet
C26_Witness ==
  /\ Returned
  /\ ~config.countStockouts
  /\ result.totals.demand > result.totals.sold
  /\ result.totals.sold > 0
  /\ Len(result.days) >= 2

\* within a pool of the SKU the stage that ran last took the soonest to expire
\* first
SoonestFirst(pool) ==
  \A d \in DaysIn(stageOpen.inventory) :
    QtyAt(state.inventory, item.sku, pool, d)
        < QtyAt(stageOpen.inventory, item.sku, pool, d)
      => \A e \in DaysIn(stageOpen.inventory) :
           e < d => QtyAt(state.inventory, item.sku, pool, e) = 0

\* C27: shrink.  For every SKU-day shrinkLost = floor((fresh + frozen on-hand
\* after the sale) * shrinkRate); exactly shrinkLost units leave the ledger,
\* from the fresh pool first (soonest to expire first) and from the frozen
\* pool only for the part that exceeds the fresh on-hand.
C27_Shrink ==
  pc = "age" =>
    /\ loc.shrinkLost
         = Floor((Before("fresh") + Before("frozen")) * item.shrinkRate, Scale)
    /\ Now("fresh") = Before("fresh") - Min(loc.shrinkLost, Before("fresh"))
    /\ Now("frozen")
         = Before("frozen") - (loc.shrinkLost - Min(loc.shrinkLost, Before("fresh")))
    /\ SoonestFirst("fresh")
    /\ SoonestFirst("frozen")

\* the shrink exceeds the fresh on-hand: the fresh pool is emptied and the
\* rest is taken from the frozen pool, which keeps some units
C27_Witness ==
  /\ pc = "age"
  /\ Before("fresh") > 0
  /\ loc.shrinkLost > Before("fresh")
  /\ Now("fresh") = 0
  /\ Now("frozen") > 0
  /\ Now("frozen") < Before("frozen")

\* the SKU's on-hand, fresh and frozen, in a ledger
OnHand(inv) == sumQty(inv, item.sku, "fresh") + sumQty(inv, item.sku, "frozen")

\* C28: holding cost.  For every SKU-day holdingCost is the holding rate times
\* the SKU's ending on-hand (fresh + frozen), the quantity left in the ledger
\* at the end of the day's pipeline, after the aging/waste stage; the units
\* wasted that day are not part of it.
C28_HoldingCost ==
  pc = "rollup" =>
    loc.holdingCost
      = OnHand(state.inventory) * config.holdingCostPerUnitPerDay * Scale

\* what the code charges: the on-hand the shrink left, which still holds the
\* units the aging stage then wastes
C28_HoldingBeforeAging ==
  pc = "rollup" =>
    /\ loc.holdingCost
         = OnHand(After("shrink", k)) * config.holdingCostPerUnitPerDay * Scale
    /\ OnHand(After("shrink", k)) = OnHand(state.inventory) + loc.wasted

\* the batches of a ledger that are of another SKU than the item's
OfOthers(inv) == {inv[i] : i \in {j \in 1..Len(inv) : inv[j].sku # item.sku}}
QueuedForOthers(q) == SelectSeq(q, LAMBDA d : d.sku # item.sku)

\* C29: scoping.  A stage of the per-SKU pipeline run for one SKU leaves every
\* batch of every other SKU as it is in quantity, daysToExpire and state (only
\* the order of the batches in the ledger may change), and leaves every
\* pending delivery of other SKUs as it is.
C29_Scoping ==
  AfterStage =>
    /\ \A b \in OfOthers(stageOpen.inventory) \cup OfOthers(state.inventory) :
         Count(state.inventory, b) = Count(stageOpen.inventory, b)
    /\ QueuedForOthers(state.pendingDeliveries)
         = QueuedForOthers(stageOpen.pendingDeliveries)

\* the generator's state after m calls of next()
RECURSIVE RngAfter(_, _)
RngAfter(t, m) == IF m = 0 THEN t ELSE RngAfter(RngStep(t), m - 1)

\* the noise factor of the j-th of n catalog items on day d: a function of the
\* seed, the standard deviation and the position alone
NoiseAt(seed, sd, n, d, j) ==
  NoiseFactor(normal(RngAfter(createRng(seed), 2 * (d * n + j - 1)), 0, sd).v)

\* the SKU iterations of the run whose demand has been drawn
DemandsDrawn ==
  day * Len(items)
    + (CASE pc \in {"day", "returned"} -> 0
         [] pc \in {"sku", "donate", "price", "demand"} -> k - 1
         [] OTHER -> k)

\* C30: matched randomness inside the engine.  Exactly one normal variate (two
\* uniform draws) is consumed per catalog item and day, whatever the policy
\* and the ledger, so the noise factor applied to the k-th catalog item on day
\* d is a function of the seed, d, k (its position among the catalog's items)
\* and demandNoiseStdDev alone: two runs with the same seed and catalog see the
\* same noise factor on every SKU-day whatever their policies and initial
\* states.
C30_MatchedNoise ==
  pc # "thrown" /\ pc # "call" =>
    /\ draws = 2 * DemandsDrawn
    /\ rng = RngAfter(createRng(config.seed), draws)
    /\ pc = "sell" =>
         loc.noise = NoiseAt(config.seed, config.demandNoiseStdDev, Len(items),
                             day, k)

\* the second item's demand on a later day of a noisy run is drawn, with a
\* factor other than 1, though the item has nothing on hand
C30_Witness ==
  /\ pc = "sell"
  /\ config.demandNoiseStdDev > 0
  /\ day >= 1
  /\ k = 2
  /\ loc.noise # Scale2
  /\ sumQty(state.inventory, item.sku, "fresh") = 0
  /\ sumQty(state.inventory, item.sku, "frozen") = 0

\* the search loop holds a scored best policy and a candidate's simulation has
\* just returned, about to be scored and compared
CandidateRun == pc = "returned" /\ search # NoSearch /\ search.iter >= 1

\* C31: matched randomness in the search loop.  Every candidate policy is
\* scored by a simulation that uses the same seed as the simulation that
\* scored the best-so-far policy it is compared against.
C31_MatchedSeeds ==
  CandidateRun => createRng(config.seed) = createRng(search.scoredWith[1])

\* a candidate scored on another seed than the best-so-far policy replaces it
C31_Replaced ==
  /\ pc = "loop"
  /\ search # NoSearch
  /\ search.iter >= 1
  /\ search.history[Len(search.history)].iteration = search.iter
  /\ search.history[Len(search.history)].candidate = search.c
  /\ search.bestEvaluation = <<search.history[Len(search.history)].evaluation>>
  /\ search.bestPolicy = policy
  /\ search.scoredWith # <<search.simConfig.seed>>

\* the run started from createInitialState
FromInitialState == initialState = <<>>
UniqueSkus == Cardinality(Skus(items)) = Len(items)
\* Math.round(orderUpTo) of the SKU's policy entry
RoundedOrderUpTo(sku) == Round(PolicyAt(policy, sku).orderUpTo, Scale)

\* C32 as stated: in a run started from createInitialState, immediately after
\* each day's delivery receipt the fresh on-hand of every SKU is at most
\* round(orderUpTo), for every lead time.
C32_AsStated ==
  (FromInitialState /\ JustReceived) =>
    \A i \in 1..Len(items) :
      sumQty(state.inventory, items[i].sku, "fresh") <= RoundedOrderUpTo(items[i].sku)

\* C32: order-up-to level.  In a run started from createInitialState with a
\* catalog of unique SKUs, immediately after each day's delivery receipt the
\* fresh on-hand of every SKU with a lead time of at most one day and a policy
\* entry of its own is at most round(orderUpTo).
C32_OrderUpTo ==
  (FromInitialState /\ UniqueSkus /\ JustReceived) =>
    \A i \in 1..Len(items) :
      (items[i].leadTimeDays <= 1 /\ items[i].sku \in DOMAIN policy.perSku) =>
        sumQty(state.inventory, items[i].sku, "fresh")
          <= RoundedOrderUpTo(items[i].sku)

\* an order of the day before has just arrived and has brought the fresh
\* on-hand of a SKU with a lead time of one day up to the order-up-to level
C32_Witness ==
  /\ FromInitialState
  /\ UniqueSkus
  /\ JustReceived
  /\ day >= 1
  /\ \E i \in 1..Len(items) :
        /\ items[i].leadTimeDays = 1
        /\ items[i].sku \in DOMAIN policy.perSku
        /\ \E j \in 1..Len(received) :
              /\ received[j].day = day
              /\ received[j].sku = items[i].sku
              /\ received[j].qty > 0
        /\ sumQty(state.inventory, items[i].sku, "fresh")
             = RoundedOrderUpTo(items[i].sku)

\* the raw rates evaluateSimulation computes from the result of the run
ResultRates == RawRates([config |-> config, totals |-> result.totals])
IsZero(x) == x.k = "fin" /\ x.n = 0
AllZero(t) ==
  /\ t.sold = 0
  /\ t.wasted = 0
  /\ t.donated = 0
  /\ t.stockout = 0
  /\ t.demand = 0

\* C33: raw rates.  For the totals of any simulation run, wasteRate,
\* donationRate and the unclamped fillRate each lie in [0,1], wasteRate +
\* donationRate <= 1, and with all-zero totals wasteRate = 0, donationRate = 0
\* and fillRate = 1.
C33_RawRates ==
  Returned =>
    LET r == ResultRates
        t == result.totals
        handled == Max(1, t.sold + t.wasted + t.donated)
    IN  /\ InUnit(r.wasteRate)
        /\ InUnit(r.donationRate)
        /\ InUnit(r.fillRate)
        /\ r.wasteRate.n * r.donationRate.d + r.donationRate.n * r.wasteRate.d
             <= r.wasteRate.d * r.donationRate.d
        \* the rates are the quotients the claim names
        /\ r.wasteRate.n * handled = t.wasted * r.wasteRate.d
        /\ r.donationRate.n * handled = t.donated * r.donationRate.d
        /\ (r.fillRate.d - r.fillRate.n) * Max(1, t.demand)
             = t.stockout * r.fillRate.d
        /\ AllZero(t) =>
             (IsZero(r.wasteRate) /\ IsZero(r.donationRate) /\ IsOne(r.fillRate))

\* a run that wasted, donated, sold and left demand unmet: every rate is
\* strictly inside the interval
C33_Witness ==
  /\ Returned
  /\ result.totals.wasted > 0
  /\ result.totals.donated > 0
  /\ result.totals.sold > 0
  /\ result.totals.stockout > 0

\* the sub-score is exactly 1 when `favourable`, exactly 0 otherwise
Step(score, favourable) == IF favourable THEN IsOne(score) ELSE IsZero(score)
Degenerate(target) == RatLeq(target, Zero)

\* C34: degenerate targets.  When a normalization target is <= 0 the sub-score
\* is exactly 1 iff value > 0 for profit per day, fill rate and donation rate,
\* and exactly 1 iff value <= 0 for the waste rate; otherwise it is exactly 0.
C34_DegenerateTargets ==
  Evaluated =>
    LET b == evaluation[1].breakdown
        raw == evaluation[1].raw
        r == RawRates(sim)
    IN  /\ Degenerate(cfg.profitPerDayTarget) =>
             Step(b.profitScore, RatLess(Zero, raw.profitPerDay))
        /\ Degenerate(cfg.satisfactionTarget) =>
             Step(b.satisfactionScore, RatLess(Zero, r.fillRate))
        /\ Degenerate(cfg.donationRateTarget) =>
             Step(b.humanitarianScore, RatLess(Zero, r.donationRate))
        /\ Degenerate(cfg.wasteRateTarget) =>
             Step(b.wasteReductionScore, RatLeq(r.wasteRate, Zero))

\* targets <= 0 with a loss, waste and a donation: the profit score is 0, the
\* waste score 0, the donation score 1
C34_Witness ==
  /\ Evaluated
  /\ RatLess(cfg.profitPerDayTarget, Zero)
  /\ Degenerate(cfg.wasteRateTarget)
  /\ RatLess(evaluation[1].raw.profitPerDay, Zero)
  /\ RatLess(Zero, evaluation[1].raw.wasteRate)
  /\ RatLess(Zero, evaluation[1].raw.donationRate)
  /\ IsZero(evaluation[1].breakdown.profitScore)
  /\ IsZero(evaluation[1].breakdown.wasteReductionScore)
  /\ IsOne(evaluation[1].breakdown.humanitarianScore)

Objectives == {"profit", "wasteReduction", "satisfaction", "humanitarian"}
\* the sub-score the weight of objective o multiplies
SubScore(o) ==
  CASE o = "profit" -> evaluation[1].breakdown.profitScore
    [] o = "wasteReduction" -> evaluation[1].breakdown.wasteReductionScore
    [] o = "satisfaction" -> evaluation[1].breakdown.satisfactionScore
    [] o = "humanitarian" -> evaluation[1].breakdown.humanitarianScore
\* the objectives with a nonzero weight
Weighted == {o \in Objectives : cfg.weights[o] # 0}
RatEq(a, b) == a.k = "fin" /\ b.k = "fin" /\ a.n * b.d = b.n * a.d
\* the score lies between the smallest and the largest weighted sub-score
BetweenWeighted ==
  /\ evaluation[1].score.k = "fin"
  /\ \E o \in Weighted : RatLeq(SubScore(o), evaluation[1].score)
  /\ \E o \in Weighted : RatLeq(evaluation[1].score, SubScore(o))
\* the weighted sum of the sub-scores, in 1/ScoreScale of a weight unit
WeightedPoints ==
  cfg.weights.profit * Points(SubScore("profit"))
    + cfg.weights.wasteReduction * Points(SubScore("wasteReduction"))
    + cfg.weights.satisfaction * Points(SubScore("satisfaction"))
    + cfg.weights.humanitarian * Points(SubScore("humanitarian"))

\* C35 as stated: for nonnegative weights the score lies between the smallest
\* and the largest sub-score that has a nonzero weight, equals that sub-score
\* when exactly one weight is nonzero, and is 0 when all weights are 0.  It is
\* stated here for the weights whose sum is a finite double, where no sum
\* overflows.
C35_AsStated ==
  (Evaluated /\ WeightSum <= MaxDouble) =>
    /\ Weighted # {} => BetweenWeighted
    /\ \A o \in Objectives : Weighted = {o} => RatEq(evaluation[1].score, SubScore(o))
    /\ Weighted = {} => IsZero(evaluation[1].score)

\* C35: final score.  For nonnegative weights whose sum is a finite double,
\* score = clamp01(sum of weight * sub-score / max(eps, sum of weights)); when
\* in addition the sum of the weights is at least eps, the score lies between
\* the smallest and the largest sub-score that has a nonzero weight and equals
\* that sub-score when exactly one weight is nonzero; it is 0 when all weights
\* are 0.
C35_FinalScore ==
  (Evaluated /\ WeightSum <= MaxDouble) =>
    LET denom == Max(Eps, WeightSum) * ScoreScale
    IN  /\ RatEq(evaluation[1].score, Rat(Min(WeightedPoints, denom), denom))
        /\ (Weighted # {} /\ WeightSum >= Eps) => BetweenWeighted
        /\ \A o \in Objectives :
             (Weighted = {o} /\ WeightSum >= Eps) =>
               RatEq(evaluation[1].score, SubScore(o))
        /\ Weighted = {} => IsZero(evaluation[1].score)

\* two objectives carry weight, their sub-scores differ, and the score lies
\* strictly between the two
C35_Witness ==
  /\ Evaluated
  /\ WeightSum <= MaxDouble
  /\ WeightSum >= Eps
  /\ Cardinality(Weighted) = 2
  /\ \E o \in Weighted : RatLess(SubScore(o), evaluation[1].score)
  /\ \E o \in Weighted : RatLess(evaluation[1].score, SubScore(o))

Normalized == pc = "normalized"
\* a + b = 1
SumToOne(a, b) ==
  a.k = "fin" /\ b.k = "fin" /\ a.n * b.d + b.n * a.d = a.d * b.d
\* value = c * target
Multiple(value, target, c) == value.n * target.d = c * target.n * value.d

\* C36: logistic normalization.  For target > 0 and x = value / target the
\* higher-is-better sub-score is 1 / (1 + e^(-3 (x - 1))) and the waste
\* sub-score its mirror image 1 / (1 + e^(3 (x - 1))): both are 0.5 at value =
\* target, the first is non-decreasing and the second non-increasing in value,
\* and the two sum to 1 for the same x.  The formula is pinned at x = 0 and
\* x = 2, where 1 / (1 + e^(-3)) is 0.953 to three places.
C36_Logistic ==
  (Normalized /\ RatLess(Zero, args.target)) =>
    LET r == ret[1]
    IN  /\ RatLeq(r.positive, r.positiveHigher)
        /\ RatLeq(r.lowerHigher, r.lower)
        /\ SumToOne(r.positive, r.lower)
        /\ SumToOne(r.positiveHigher, r.lowerHigher)
        /\ Multiple(args.value, args.target, 1) =>
             (RatEq(r.positive, Rat(1, 2)) /\ RatEq(r.lower, Rat(1, 2)))
        /\ Multiple(args.value, args.target, 2) =>
             (RatEq(r.positive, Rat(953, 1000)) /\ RatEq(r.lower, Rat(47, 1000)))
        /\ Multiple(args.value, args.target, 0) =>
             (RatEq(r.positive, Rat(47, 1000)) /\ RatEq(r.lower, Rat(953, 1000)))

\* a value below the target and one above it: the higher-is-better score
\* rises through 0.5 and the waste score falls through it
C36_Witness ==
  /\ Normalized
  /\ RatLess(Zero, args.target)
  /\ RatLess(args.value, args.target)
  /\ RatLess(args.target, args.higher)
  /\ RatLess(ret[1].positive, Rat(1, 2))
  /\ RatLess(Rat(1, 2), ret[1].positiveHigher)
  /\ RatLess(ret[1].lowerHigher, Rat(1, 2))
  /\ RatLess(Rat(1, 2), ret[1].lower)

\* the run is at a day boundary (before the first day, between two days, after
\* the last) or about to price a SKU
AtBoundaryOrPricing == pc \in {"day", "returned", "price"}
ZeroRules == {i \in 1..Len(p.pricing) : p.pricing[i].daysToExpireAtMost = 0}

\* C37: expiry floor.  In a run started from createInitialState with a
\* catalog of unique SKUs, at every day boundary and at every pricing stage
\* each batch of the ledger has daysToExpire >= 1; a markdown rule whose
\* threshold is 0 is never selected: the pricing stage reads a shelf life of at
\* least 1, which no such rule qualifies for.
C37_ExpiryFloor ==
  (FromInitialState /\ UniqueSkus) =>
    /\ AtBoundaryOrPricing =>
         \A i \in 1..Len(state.inventory) : state.inventory[i].daysToExpire >= 1
    /\ pc = "demand" =>
         /\ UrgentDays >= 1
         /\ ZeroRules \cap Qualifying = {}
         /\ \A i \in ZeroRules :
              applyPricing(item, [p EXCEPT !.pricing = <<p.pricing[i]>>],
                           Max(0, UrgentDays)).multiplier = Scale

\* the policy has a rule of threshold 0, the most urgent fresh batch has one
\* day left, and the rule of threshold 1 has set the price
C37_Witness ==
  /\ FromInitialState
  /\ UniqueSkus
  /\ pc = "demand"
  /\ ZeroRules # {}
  /\ UrgentDays = 1
  /\ FreshDays(state.inventory, item.sku) # {}
  /\ \E i \in Nearest :
       /\ p.pricing[i].daysToExpireAtMost = 1
       /\ loc.priceMultiplier = p.pricing[i].priceMultiplier
  /\ \A i \in ZeroRules : loc.priceMultiplier # p.pricing[i].priceMultiplier

\* the pending deliveries of a SKU
PendingOf(sku) == SelectSeq(state.pendingDeliveries, LAMBDA d : d.sku = sku)
\* the run is under way or has returned
Running == pc \notin {"call", "thrown"}
\* every pending delivery carries a whole quantity of at least 1, and after
\* the receipt a countdown between 1 and the lead time less 1
PendingWellFormed ==
  /\ \A j \in 1..Len(state.pendingDeliveries) :
       state.pendingDeliveries[j].qty \in Nat \ {0}
  /\ JustReceived =>
       \A j \in 1..Len(state.pendingDeliveries) :
         \E i \in 1..Len(items) :
           /\ items[i].sku = state.pendingDeliveries[j].sku
           /\ state.pendingDeliveries[j].arrivingInDays >= 1
           /\ state.pendingDeliveries[j].arrivingInDays <= items[i].leadTimeDays - 1

\* C38 as stated: in a run started from createInitialState, at every point
\* the number of pending deliveries for a SKU is at most max(1, leadTimeDays),
\* every pending delivery has an integer quantity >= 1, and after each
\* delivery receipt every pending delivery has a countdown between 1 and
\* leadTimeDays - 1.
C38_AsStated ==
  (FromInitialState /\ Running) =>
    /\ \A i \in 1..Len(items) :
         Len(PendingOf(items[i].sku)) <= Max(1, items[i].leadTimeDays)
    /\ PendingWellFormed

\* C38: bounded pending queue.  The same, in a run started from
\* createInitialState with a catalog of unique SKUs.
C38_PendingQueue ==
  (FromInitialState /\ UniqueSkus /\ Running) =>
    /\ \A i \in 1..Len(items) :
         Len(PendingOf(items[i].sku)) <= Max(1, items[i].leadTimeDays)
    /\ PendingWellFormed

\* a SKU with a lead time of two days has two deliveries under way, the order
\* of the day and the order of the day before
C38_Witness ==
  /\ FromInitialState
  /\ UniqueSkus
  /\ pc = "rollup"
  /\ item.leadTimeDays = 2
  /\ Len(PendingOf(item.sku)) = 2
  /\ PendingOf(item.sku)[1].arrivingInDays = 1
  /\ PendingOf(item.sku)[2].arrivingInDays = 2

\* the caller's objects are what they were before the step
ArgumentsKept ==
  /\ initialState' = initialState
  /\ items' = items
  /\ policy' = policy
  /\ config' = config

\* C39: inputs are not mutated.  No step of simulateInventory changes the
\* caller's initialState (its batches and pending deliveries), items, policy
\* or config, so the second of two calls with the same initialState object
\* returns what the first returned.
C39_InputsKept ==
  /\ [][ArgumentsKept]_vars
  /\ []((initialState # <<>> /\ call = 2 /\ Returned) => result = first)

\* the second call on a caller-supplied state has returned; the run has
\* received the deliveries under way and sold stock, and its own ledger is no
\* longer the caller's
C39_Witness ==
  /\ initialState # <<>>
  /\ call = 2
  /\ Returned
  /\ initialState[1].pendingDeliveries # <<>>
  /\ received # <<>>
  /\ result.totals.sold > 0
  /\ state.inventory # initialState[1].inventory
  /\ state.pendingDeliveries # initialState[1].pendingDeliveries

\* the days a new batch of the item starts with, by pool (lines 167, 204)
StartsWith(it, pool) ==
  Max(1, IF pool = "fresh" THEN it.shelfLifeDays ELSE it.frozenShelfLifeDays)

WastedOf(l, pool) == IF pool = "fresh" THEN l.wastedFresh ELSE l.wastedFrozen

\* the units of catalog entry i's SKU that today's receipt, or today's freeze,
\* put into the pool
CreatedToday(i, pool) ==
  IF pool = "fresh" THEN Arrivals(received, items[i].sku, day)
  ELSE locs[i].frozenMoved

\* where a pool of catalog entry i got new batches today, the batches that
\* were at their full shelf life when the entry's aging began are one day
\* short of it when the day ends, or were counted as wasted if that leaves
\* them nothing; the batches received and the batches frozen today were
\* among them
AgedToday(i) ==
  LET it == items[i]
  IN  /\ \A pool \in Pools :
           LET full == StartsWith(it, pool)
               new  == QtyAt(After("shrink", i), it.sku, pool, full)
           IN  CreatedToday(i, pool) > 0 =>
                 IF full = 1
                 THEN /\ QtyAt(state.inventory, it.sku, pool, 0) = 0
                      /\ WastedOf(locs[i], pool) >= new
                 ELSE QtyAt(state.inventory, it.sku, pool, full - 1) = new
      /\ QtyAt(After("receive", 0), it.sku, "fresh", StartsWith(it, "fresh"))
           >= CreatedToday(i, "fresh")
      /\ QtyAt(After("freeze", i), it.sku, "frozen", StartsWith(it, "frozen"))
           >= CreatedToday(i, "frozen")
      /\ StartsWith(it, "frozen") = 1 =>
           locs[i].wastedFrozen
             >= locs[i].frozenMoved - locs[i].soldFrozen - locs[i].lostFrozen

\* C40 as stated: every batch created on day d, by the delivery receipt or by
\* the freeze, is aged once in day d's aging stage, so at the end of day d it
\* has its shelf life minus one day left, whatever the catalog.
C40_AsStated ==
  AllSkusDone => \A i \in 1..Len(items) : AgedToday(i)

\* C40: same-day aging of new batches.  With a catalog of unique SKUs, a
\* batch created on day d, by the delivery receipt or by the freeze, is aged
\* in day d's aging stage: at the end of day d it has its shelf life minus one
\* day left, and with a frozen shelf life of one day every unit frozen on day
\* d that was not sold or shrunk that day is counted as wasted on day d.
C40_SameDayAging ==
  (AllSkusDone /\ UniqueSkus) => \A i \in 1..Len(items) : AgedToday(i)

\* the day ends with units received today one day short of their shelf life,
\* and with units frozen today, on a frozen shelf life of one day, wasted
C40_Witness ==
  /\ AllSkusDone
  /\ UniqueSkus
  /\ \E i \in 1..Len(items) :
       /\ Arrivals(received, items[i].sku, day) > 0
       /\ StartsWith(items[i], "fresh") > 1
       /\ QtyAt(state.inventory, items[i].sku, "fresh",
                StartsWith(items[i], "fresh") - 1) > 0
  /\ \E i \in 1..Len(items) :
       /\ StartsWith(items[i], "frozen") = 1
       /\ locs[i].frozenMoved > locs[i].soldFrozen + locs[i].lostFrozen
       /\ locs[i].wastedFrozen > 0

====
